---- MODULE Spec2Model ----
(***************************************************************************)
(* Scheduling core of social-calendar: ConflictDetector,                   *)
(* AvailabilityCalculator and DurationEstimator.                           *)
(*                                                                         *)
(* Instants are JavaScript Date values: integers, milliseconds since the   *)
(* epoch.  The local time zone is taken to be UTC without DST, so the hour *)
(* of an instant is a function of the instant alone.  Instant 0 is the     *)
(* midnight that starts day 0.                                             *)
(***************************************************************************)
EXTENDS Integers, Sequences, FiniteSets, TLC

VARIABLES
  events,       \* ConflictDetector input: the events list
  options,      \* ConflictDetector input: the options argument (fields may be absent)
  conflicts,    \* what detectConflicts returned
  eventConflicts, \* what detectConflictsForEvent returned
  cdPhase,      \* "input", then "done" or "checked"; "idle" when unused
  users,        \* AvailabilityCalculator input: the UserAvailability list
  duration,     \* suggestMeetingTimes input: the meeting length in minutes
  startDate,    \* AvailabilityCalculator input: start of the range
  endDate,      \* AvailabilityCalculator input: end of the range
  avOptions,    \* AvailabilityCalculator input: the options argument
  freeSlots,    \* what calculateAvailability returned: userId -> free slots
  suggestions,  \* what suggestMeetingTimes returned
  preferredTimes, \* the preferredTimes argument of findOptimalMeetingTime
  optimal,      \* what findOptimalMeetingTime returned; <<>> for null
  avPhase,      \* "input", then "availability" or "suggested"; "idle" when unused
  title,        \* DurationEstimator input: the title argument
  description,  \* DurationEstimator input: <<>> for undefined, else <<string>>
  estimate,     \* what estimateDuration returned
  explanation,  \* what getEstimationExplanation returned
  dePhase,      \* "input", then "estimated" or "explained"; "idle" when unused
  dbEvents,     \* the rows of prisma.event, in the order they were created
  dbConflicts,  \* the rows of prisma.eventConflict
  request,      \* the request an API route handled last; route "none" before the first
  response,     \* the response it returned; status 0 before the first
  engines,      \* the fields of the engine instances the callers share
  calls,        \* caller -> the call it made last; method "none" before the first
  results,      \* caller -> <<>> while its call has not run, else <<what it returned>>
  dbNotifications, \* the rows of prisma.notification of the session user, oldest first
  notifications,   \* the notifications state of NotificationDropdown
  unreadCount,     \* the unreadCount state of NotificationDropdown
  fetchReply,      \* the initial fetch: state "requested", "answered" with the reply, "received"
  pollReplies,     \* the replies to poll requests that are in flight
  ticks,           \* how often the poll interval has fired
  now,             \* the clock of the scheduled endpoint, in minutes
  schedEvents,     \* the rows of prisma.event that the scheduled endpoint reads
  schedTasks,      \* the rows of prisma.task that the scheduled endpoint reads
  schedNotifications, \* the rows of prisma.notification it has created, oldest first
  schedResponse,   \* the body of the response it returned last; <<>> before the first
  posts            \* how often the scheduled endpoint has been invoked

cdVars == <<events, options, conflicts, eventConflicts, cdPhase>>

avVars ==
  <<users, duration, startDate, endDate, avOptions, freeSlots, suggestions,
    preferredTimes, optimal, avPhase>>

deVars == <<title, description, estimate, explanation, dePhase>>

rtVars == <<dbEvents, dbConflicts, request, response>>

shVars == <<engines, calls, results>>

ndVars == <<dbNotifications, notifications, unreadCount, fetchReply, pollReplies, ticks>>

snVars == <<now, schedEvents, schedTasks, schedNotifications, schedResponse, posts>>

vars == <<cdVars, avVars, deVars, rtVars, shVars, ndVars, snVars>>

-----------------------------------------------------------------------------
(* Time arithmetic                                                         *)

MsPerMinute == 60000

MsPerHour == 60 * MsPerMinute

MsPerDay == 24 * MsPerHour

\* The instant hh:mm:ss of day d.
At(d, hh, mm, ss) == d * MsPerDay + hh * MsPerHour + mm * MsPerMinute + ss * 1000

\* Date.prototype.getHours
getHours(t) == (t % MsPerDay) \div MsPerHour

\* Date.prototype.getMinutes
getMinutes(t) == (t % MsPerHour) \div MsPerMinute

\* Math.round(n / d) for d > 0: halves round towards +infinity.
RoundDiv(n, d) == (2 * n + d) \div (2 * d)

Min2(a, b) == IF a <= b THEN a ELSE b

Max2(a, b) == IF a >= b THEN a ELSE b

-----------------------------------------------------------------------------
(* ConflictDetector                                                        *)

NoConflict == [type |-> "none"]

OptionFields == {"includeBackToBack", "travelTimeMinutes", "workPersonalSeparation"}

defaultOptions ==
  [includeBackToBack |-> TRUE, travelTimeMinutes |-> 15, workPersonalSeparation |-> FALSE]

\* { ...this.defaultOptions, ...options }
MergeOptions(o) ==
  [f \in OptionFields |-> IF f \in DOMAIN o THEN o[f] ELSE defaultOptions[f]]

\* [...events].sort((a, b) => a.startTime - b.startTime): a stable sort.
\* e goes behind every element that does not start after it.
InsertByStart(sorted, e) ==
  LET pos == Cardinality({i \in 1..Len(sorted) : sorted[i].startTime <= e.startTime})
  IN SubSeq(sorted, 1, pos) \o <<e>> \o SubSeq(sorted, pos + 1, Len(sorted))

RECURSIVE SortByStartFrom(_, _, _)
SortByStartFrom(evs, k, acc) ==
  IF k > Len(evs) THEN acc
  ELSE SortByStartFrom(evs, k + 1, InsertByStart(acc, evs[k]))

\* Mutant: the events are paired in input order, without the sort.
SortByStartUnsorted(evs) == evs

SortByStart(evs) == SortByStartFrom(evs, 1, <<>>)

\* Mutant: the equal-interval disjunct of the overlap test is missing.
OverlapTestNoEqual(event1, event2) ==
  \/ (event1.startTime < event2.endTime /\ event1.endTime > event2.startTime)
  \/ (event2.startTime < event1.endTime /\ event2.endTime > event1.startTime)

\* The test of checkOverlap: the three disjuncts of the if.
OverlapTest(event1, event2) ==
  \/ (event1.startTime < event2.endTime /\ event1.endTime > event2.startTime)
  \/ (event2.startTime < event1.endTime /\ event2.endTime > event1.startTime)
  \/ (event1.startTime = event2.startTime /\ event1.endTime = event2.endTime)

\* Mutant: the overlap is cut to whole minutes instead of rounded.
checkOverlapTruncated(event1, event2) ==
  IF OverlapTest(event1, event2)
  THEN LET overlapStart == Max2(event1.startTime, event2.startTime)
           overlapEnd == Min2(event1.endTime, event2.endTime)
           overlapDuration == (overlapEnd - overlapStart) \div MsPerMinute
           shorterMs == Min2(event1.endTime - event1.startTime,
                             event2.endTime - event2.startTime)
           sameTime == event1.startTime = event2.startTime
                          /\ event1.endTime = event2.endTime
       IN [id |-> <<event1.id, event2.id>>,
           type |-> IF sameTime THEN "double_booking" ELSE "overlap",
           severity |-> IF sameTime THEN "critical"
                        \* overlapDuration > min(minutes1, minutes2) * 0.5
                        ELSE IF 2 * overlapDuration * MsPerMinute > shorterMs THEN "high"
                        ELSE IF overlapDuration > 30 THEN "medium"
                        ELSE "low",
           primaryEvent |-> event1,
           conflictingEvent |-> event2,
           overlapDuration |-> <<overlapDuration>>]
  ELSE NoConflict

checkOverlap(event1, event2) ==
  IF OverlapTest(event1, event2)
  THEN LET overlapStart == Max2(event1.startTime, event2.startTime)
           overlapEnd == Min2(event1.endTime, event2.endTime)
           overlapDuration == RoundDiv(overlapEnd - overlapStart, MsPerMinute)
           shorterMs == Min2(event1.endTime - event1.startTime,
                             event2.endTime - event2.startTime)
           sameTime == event1.startTime = event2.startTime
                          /\ event1.endTime = event2.endTime
       IN [id |-> <<event1.id, event2.id>>,
           type |-> IF sameTime THEN "double_booking" ELSE "overlap",
           severity |-> IF sameTime THEN "critical"
                        \* overlapDuration > min(minutes1, minutes2) * 0.5
                        ELSE IF 2 * overlapDuration * MsPerMinute > shorterMs THEN "high"
                        ELSE IF overlapDuration > 30 THEN "medium"
                        ELSE "low",
           primaryEvent |-> event1,
           conflictingEvent |-> event2,
           overlapDuration |-> <<overlapDuration>>]
  ELSE NoConflict

\* Mutant: touching events (timeBetween = 0) are not back-to-back.
checkBackToBackStrict(event1, event2, travelTimeMinutes) ==
  LET timeBetweenMs == event2.startTime - event1.endTime
  IN IF timeBetweenMs > 0 /\ timeBetweenMs < travelTimeMinutes * MsPerMinute
     THEN [id |-> <<event1.id, event2.id>>,
           type |-> "travel_time",
           severity |-> IF timeBetweenMs < 5 * MsPerMinute THEN "medium" ELSE "low",
           primaryEvent |-> event1,
           conflictingEvent |-> event2,
           overlapDuration |-> <<>>]
     ELSE NoConflict

checkBackToBack(event1, event2, travelTimeMinutes) ==
  LET timeBetweenMs == event2.startTime - event1.endTime
  IN IF timeBetweenMs >= 0 /\ timeBetweenMs < travelTimeMinutes * MsPerMinute
     THEN [id |-> <<event1.id, event2.id>>,
           type |-> "travel_time",
           severity |-> IF timeBetweenMs = 0 THEN "medium"
                        ELSE IF timeBetweenMs < 5 * MsPerMinute THEN "medium"
                        ELSE "low",
           primaryEvent |-> event1,
           conflictingEvent |-> event2,
           overlapDuration |-> <<>>]
     ELSE NoConflict

\* Mutant: the event that starts first is the primary event.
checkWorkPersonalSeparationFirstPrimary(event1, event2) ==
  IF event1.isWork # event2.isWork
  THEN LET workEvent == IF event1.isWork THEN event1 ELSE event2
           workEventHour == getHours(workEvent.startTime)
       IN IF workEventHour < 9 \/ workEventHour >= 17
          THEN [id |-> <<event1.id, event2.id>>,
                type |-> "overlap",
                severity |-> "medium",
                primaryEvent |-> event1,
                conflictingEvent |-> event2,
                overlapDuration |-> <<>>]
          ELSE NoConflict
  ELSE NoConflict

checkWorkPersonalSeparation(event1, event2) ==
  IF event1.isWork # event2.isWork
  THEN LET workEvent == IF event1.isWork THEN event1 ELSE event2
           personalEvent == IF event1.isWork THEN event2 ELSE event1
           workEventHour == getHours(workEvent.startTime)
       IN IF workEventHour < 9 \/ workEventHour >= 17
          THEN [id |-> <<event1.id, event2.id>>,
                type |-> "overlap",
                severity |-> "medium",
                primaryEvent |-> workEvent,
                conflictingEvent |-> personalEvent,
                overlapDuration |-> <<>>]
          ELSE NoConflict
  ELSE NoConflict

\* Mutant: the work/personal separation check runs before the overlap check.
detectConflictBetweenEventsSeparationFirst(event1, event2, opts) ==
  LET overlapConflict == checkOverlap(event1, event2)
      backToBackConflict == checkBackToBack(event1, event2, opts.travelTimeMinutes)
      separationConflict == checkWorkPersonalSeparation(event1, event2)
  IN IF opts.workPersonalSeparation /\ separationConflict # NoConflict
     THEN separationConflict
     ELSE IF overlapConflict # NoConflict THEN overlapConflict
     ELSE IF opts.includeBackToBack /\ opts.travelTimeMinutes # 0
             /\ backToBackConflict # NoConflict THEN backToBackConflict
     ELSE NoConflict

detectConflictBetweenEvents(event1, event2, opts) ==
  LET overlapConflict == checkOverlap(event1, event2)
      backToBackConflict == checkBackToBack(event1, event2, opts.travelTimeMinutes)
      separationConflict == checkWorkPersonalSeparation(event1, event2)
  IN IF overlapConflict # NoConflict THEN overlapConflict
     ELSE IF opts.includeBackToBack /\ opts.travelTimeMinutes # 0
             /\ backToBackConflict # NoConflict THEN backToBackConflict
     ELSE IF opts.workPersonalSeparation /\ separationConflict # NoConflict
          THEN separationConflict
     ELSE NoConflict

\* [primary.id, conflicting.id].sort().join('_'): the ids in sorted order.
ConflictKey(conflict) ==
  LET a == conflict.primaryEvent.id
      b == conflict.conflictingEvent.id
  IN <<Min2(a, b), Max2(a, b)>>

RECURSIVE DedupFrom(_, _, _)
DedupFrom(cs, k, seen) ==
  IF k > Len(cs) THEN <<>>
  ELSE IF ConflictKey(cs[k]) \in seen THEN DedupFrom(cs, k + 1, seen)
  ELSE <<cs[k]>> \o DedupFrom(cs, k + 1, seen \cup {ConflictKey(cs[k])})

deduplicateConflicts(cs) == DedupFrom(cs, 1, {})

\* Mutant: events of the same calendar are not skipped.
PairStepNoCalendarSkip(sortedEvents, i, j, opts) ==
  LET conflict == detectConflictBetweenEvents(sortedEvents[i], sortedEvents[j], opts)
  IN IF conflict # NoConflict THEN <<conflict>> ELSE <<>>

\* The body of the inner loop of detectConflicts for the pair (i, j).
PairStep(sortedEvents, i, j, opts) ==
  IF sortedEvents[i].calendarId = sortedEvents[j].calendarId THEN <<>>
  ELSE LET conflict == detectConflictBetweenEvents(sortedEvents[i], sortedEvents[j], opts)
       IN IF conflict # NoConflict THEN <<conflict>> ELSE <<>>

RECURSIVE InnerLoop(_, _, _, _)
InnerLoop(sortedEvents, i, j, opts) ==
  IF j > Len(sortedEvents) THEN <<>>
  ELSE PairStep(sortedEvents, i, j, opts) \o InnerLoop(sortedEvents, i, j + 1, opts)

RECURSIVE OuterLoop(_, _, _)
OuterLoop(sortedEvents, i, opts) ==
  IF i > Len(sortedEvents) THEN <<>>
  ELSE InnerLoop(sortedEvents, i, i + 1, opts) \o OuterLoop(sortedEvents, i + 1, opts)

detectConflicts(evs, o) ==
  deduplicateConflicts(OuterLoop(SortByStart(evs), 1, MergeOptions(o)))

\* The for loop of detectConflictsForEvent from existing event k on: newEvent is
\* always the first argument of detectConflictBetweenEvents.
RECURSIVE ForEventLoop(_, _, _, _)
ForEventLoop(newEvent, existingEvents, k, opts) ==
  IF k > Len(existingEvents) THEN <<>>
  ELSE (IF existingEvents[k].id = newEvent.id THEN <<>>
        ELSE LET conflict == detectConflictBetweenEvents(newEvent, existingEvents[k], opts)
             IN IF conflict # NoConflict THEN <<conflict>> ELSE <<>>)
       \o ForEventLoop(newEvent, existingEvents, k + 1, opts)

detectConflictsForEvent(newEvent, existingEvents, o) ==
  ForEventLoop(newEvent, existingEvents, 1, MergeOptions(o))

-----------------------------------------------------------------------------
(* AvailabilityCalculator                                                  *)

\* Date.prototype.getDay: day 0 of the epoch is a Thursday.
getDay(t) == (4 + t \div MsPerDay) % 7

\* addDays(date, 1)
addDay(t) == t + MsPerDay

\* addMinutes(date, n)
addMinutes(t, n) == t + n * MsPerMinute

DigitValue(c) ==
  CASE c = "0" -> 0 [] c = "1" -> 1 [] c = "2" -> 2 [] c = "3" -> 3 [] c = "4" -> 4
    [] c = "5" -> 5 [] c = "6" -> 6 [] c = "7" -> 7 [] c = "8" -> 8 [] c = "9" -> 9

\* Number(s) for a string of decimal digits, given as its characters.
RECURSIVE ToNumber(_)
ToNumber(chars) ==
  IF chars = <<>> THEN 0
  ELSE 10 * ToNumber(SubSeq(chars, 1, Len(chars) - 1)) + DigitValue(chars[Len(chars)])

\* timeString.split(':').map(Number), for a string "HH:mm" given as its characters.
SplitTime(timeString) ==
  LET colon == CHOOSE i \in 1..Len(timeString) :
                 timeString[i] = ":" /\ \A k \in 1..(i - 1) : timeString[k] # ":"
  IN <<ToNumber(SubSeq(timeString, 1, colon - 1)),
       ToNumber(SubSeq(timeString, colon + 1, Len(timeString)))>>

\* result.setHours(hours, minutes, 0, 0) on a copy of date
parseTimeOnDate(timeString, date) ==
  LET hm == SplitTime(timeString)
  IN (date - (date % MsPerDay)) + hm[1] * MsPerHour + hm[2] * MsPerMinute

defaultWorkingHours ==
  [start |-> <<"0", "9", ":", "0", "0">>,
   end |-> <<"1", "7", ":", "0", "0">>,
   days |-> {1, 2, 3, 4, 5}]

availabilityDefaultOptions ==
  [bufferMinutes |-> 15, minMeetingDuration |-> 30, maxMeetingDuration |-> 120]

\* { ...this.defaultOptions, ...options }
MergeAvailabilityOptions(o) ==
  [f \in (DOMAIN availabilityDefaultOptions) \cup (DOMAIN o) |->
     IF f \in DOMAIN o THEN o[f] ELSE availabilityDefaultOptions[f]]

\* isWithinInterval(date, { start, end }): both ends belong to the interval.
isWithinInterval(date, start, end) == date >= start /\ date <= end

\* busySlots.sort((a, b) => a.start - b.start): a stable sort.
InsertSlotByStart(sorted, slot) ==
  LET pos == Cardinality({i \in 1..Len(sorted) : sorted[i].start <= slot.start})
  IN SubSeq(sorted, 1, pos) \o <<slot>> \o SubSeq(sorted, pos + 1, Len(sorted))

RECURSIVE SortSlotsFrom(_, _, _)
SortSlotsFrom(slots, k, acc) ==
  IF k > Len(slots) THEN acc
  ELSE SortSlotsFrom(slots, k + 1, InsertSlotByStart(acc, slots[k]))

\* Mutant: every busy slot is kept, whatever the day.
SortedBusyUnfiltered(busySlots, dayStart, dayEnd) ==
  SortSlotsFrom(busySlots, 1, <<>>)

\* The filter and sort at the head of findFreeSlotsInDay.
SortedBusy(busySlots, dayStart, dayEnd) ==
  LET InDay(slot) == \/ isWithinInterval(slot.start, dayStart, dayEnd)
                     \/ isWithinInterval(slot.end, dayStart, dayEnd)
  IN SortSlotsFrom(SelectSeq(busySlots, InDay), 1, <<>>)

\* The loop of findFreeSlotsInDay over consecutive busy slots, from index i on.
RECURSIVE GapsBetween(_, _, _)
GapsBetween(sortedBusy, i, bufferMinutes) ==
  IF i > Len(sortedBusy) - 1 THEN <<>>
  ELSE LET freeStart == addMinutes(sortedBusy[i].end, bufferMinutes)
           freeEnd == addMinutes(sortedBusy[i + 1].start, -bufferMinutes)
       IN (IF freeStart < freeEnd THEN <<[start |-> freeStart, end |-> freeEnd]>> ELSE <<>>)
          \o GapsBetween(sortedBusy, i + 1, bufferMinutes)

findFreeSlotsInDay(busySlots, dayStart, dayEnd, bufferMinutes) ==
  LET sortedBusy == SortedBusy(busySlots, dayStart, dayEnd)
      firstBusy == sortedBusy[1]
      lastBusy == sortedBusy[Len(sortedBusy)]
      beforeEnd == addMinutes(firstBusy.start, -bufferMinutes)
      afterStart == addMinutes(lastBusy.end, bufferMinutes)
  IN IF Len(sortedBusy) = 0 THEN <<[start |-> dayStart, end |-> dayEnd]>>
     ELSE (IF dayStart < firstBusy.start /\ dayStart < beforeEnd
           THEN <<[start |-> dayStart, end |-> beforeEnd]>> ELSE <<>>)
          \o GapsBetween(sortedBusy, 1, bufferMinutes)
          \o (IF afterStart < dayEnd
              THEN <<[start |-> afterStart, end |-> dayEnd]>> ELSE <<>>)

\* The while loop of calculateAvailability for one user, from currentDate on.
RECURSIVE UserDayLoop(_, _, _, _)
UserDayLoop(user, currentDate, rangeEnd, opts) ==
  IF currentDate > rangeEnd THEN <<>>
  ELSE (IF getDay(currentDate) \in user.workingHours.days
        THEN findFreeSlotsInDay(user.busySlots,
                                parseTimeOnDate(user.workingHours.start, currentDate),
                                parseTimeOnDate(user.workingHours.end, currentDate),
                                opts.bufferMinutes)
        ELSE <<>>)
       \o UserDayLoop(user, addDay(currentDate), rangeEnd, opts)

\* The for loop of calculateAvailability from user k on.  result[user.userId] =
\* freeSlots for each user in turn: a later user with the same userId replaces an
\* earlier one.
RECURSIVE UserLoop(_, _, _, _, _)
UserLoop(us, k, rangeStart, rangeEnd, opts) ==
  IF k > Len(us) THEN <<>>
  ELSE UserLoop(us, k + 1, rangeStart, rangeEnd, opts)
       @@ (us[k].userId :> UserDayLoop(us[k], rangeStart, rangeEnd, opts))

calculateAvailability(us, rangeStart, rangeEnd, o) ==
  UserLoop(us, 1, rangeStart, rangeEnd, MergeAvailabilityOptions(o))

\* The inner while loop of generateTimeSlots for one day, from slotStart on.
RECURSIVE DaySlots(_, _, _)
DaySlots(slotStart, dayEnd, dur) ==
  IF addMinutes(slotStart, dur) <= dayEnd
  THEN <<[start |-> slotStart, end |-> addMinutes(slotStart, dur)]>>
       \o DaySlots(addMinutes(slotStart, 30), dayEnd, dur)
  ELSE <<>>

\* The outer while loop of generateTimeSlots, from currentDate on.
RECURSIVE SlotDayLoop(_, _, _, _)
SlotDayLoop(workingHours, currentDate, rangeEnd, dur) ==
  IF currentDate > rangeEnd THEN <<>>
  ELSE (IF getDay(currentDate) \in workingHours.days
        THEN DaySlots(parseTimeOnDate(workingHours.start, currentDate),
                      parseTimeOnDate(workingHours.end, currentDate), dur)
        ELSE <<>>)
       \o SlotDayLoop(workingHours, addDay(currentDate), rangeEnd, dur)

generateTimeSlots(rangeStart, rangeEnd, dur, opts) ==
  LET workingHours == IF "workingHours" \in DOMAIN opts THEN opts.workingHours
                      ELSE defaultWorkingHours
  IN SlotDayLoop(workingHours, rangeStart, rangeEnd, dur)

\* Mutant: a free slot that shares some time with the candidate is enough.
isSlotAvailablePartly(slot, userFreeSlots) ==
  \E k \in 1..Len(userFreeSlots) :
    slot.start < userFreeSlots[k].end /\ slot.end > userFreeSlots[k].start

isSlotAvailable(slot, userFreeSlots) ==
  \E k \in 1..Len(userFreeSlots) :
    ~(slot.start < userFreeSlots[k].start) /\ ~(slot.end > userFreeSlots[k].end)

\* The factors of calculateSlotScore are multiples of 1/20; the score is kept as the
\* exact fraction scoreNum / scoreDen with scoreDen = totalCount * 20^5.
ScoreUnit == 20

\* Mutant: the end-of-day factor is missing.
calculateSlotScoreNumNoEndOfDay(slot, availableCount) ==
  LET hour == getHours(slot.start)
      minute == getMinutes(slot.start)
  IN availableCount
     * (IF minute = 0 THEN 24 ELSE IF minute = 30 THEN 22 ELSE ScoreUnit)
     * (IF (hour >= 9 /\ hour <= 11) \/ (hour >= 13 /\ hour <= 16) THEN 26 ELSE ScoreUnit)
     * (IF hour < 9 \/ hour > 16 THEN 18 ELSE ScoreUnit)
     * (IF hour = 13 THEN 19 ELSE ScoreUnit)
     * ScoreUnit

calculateSlotScoreNum(slot, availableCount) ==
  LET hour == getHours(slot.start)
      minute == getMinutes(slot.start)
  IN availableCount
     * (IF minute = 0 THEN 24 ELSE IF minute = 30 THEN 22 ELSE ScoreUnit)
     * (IF (hour >= 9 /\ hour <= 11) \/ (hour >= 13 /\ hour <= 16) THEN 26 ELSE ScoreUnit)
     * (IF hour < 9 \/ hour > 16 THEN 18 ELSE ScoreUnit)
     * (IF hour = 13 THEN 19 ELSE ScoreUnit)
     * (IF hour >= 17 THEN 16 ELSE ScoreUnit)

calculateSlotScoreDen(totalCount) ==
  totalCount * ScoreUnit * ScoreUnit * ScoreUnit * ScoreUnit * ScoreUnit

\* Mutant: the quorum is rounded down.
MinParticipantsFloor(userCount) == (6 * userCount) \div 10

\* Math.ceil(users.length * 0.6); the double product rounds to the exact value for
\* every length below 2000.
MinParticipants(userCount) == (6 * userCount + 9) \div 10

\* Mutant: confidence is taken relative to the quorum.
SuggestionForQuorumConfidence(slot, us, userAvailabilities, dur) ==
  LET availableUsers ==
        SelectSeq([i \in 1..Len(us) |-> us[i].userId],
                  LAMBDA uid : isSlotAvailable(slot, userAvailabilities[uid]))
  IN IF Len(availableUsers) >= MinParticipants(Len(us))
     THEN <<[start |-> slot.start,
             end |-> slot.end,
             duration |-> dur,
             availableParticipants |-> availableUsers,
             confidence |-> <<Len(availableUsers), MinParticipants(Len(us))>>,
             scoreNum |-> calculateSlotScoreNum(slot, Len(availableUsers)),
             scoreDen |-> calculateSlotScoreDen(Len(us))]>>
     ELSE <<>>

\* The body of the for loop of suggestMeetingTimes for one candidate slot;
\* confidence is kept as the fraction <<availableUsers.length, users.length>>.
SuggestionFor(slot, us, userAvailabilities, dur) ==
  LET availableUsers ==
        SelectSeq([i \in 1..Len(us) |-> us[i].userId],
                  LAMBDA uid : isSlotAvailable(slot, userAvailabilities[uid]))
  IN IF Len(availableUsers) >= MinParticipants(Len(us))
     THEN <<[start |-> slot.start,
             end |-> slot.end,
             duration |-> dur,
             availableParticipants |-> availableUsers,
             confidence |-> <<Len(availableUsers), Len(us)>>,
             scoreNum |-> calculateSlotScoreNum(slot, Len(availableUsers)),
             scoreDen |-> calculateSlotScoreDen(Len(us))]>>
     ELSE <<>>

RECURSIVE SuggestLoop(_, _, _, _, _)
SuggestLoop(timeSlots, k, us, userAvailabilities, dur) ==
  IF k > Len(timeSlots) THEN <<>>
  ELSE SuggestionFor(timeSlots[k], us, userAvailabilities, dur)
       \o SuggestLoop(timeSlots, k + 1, us, userAvailabilities, dur)

\* Mutant: the lowest score comes first.
InsertByScoreAscending(sorted, sug) ==
  LET pos == Cardinality({i \in 1..Len(sorted) : sorted[i].scoreNum <= sug.scoreNum})
  IN SubSeq(sorted, 1, pos) \o <<sug>> \o SubSeq(sorted, pos + 1, Len(sorted))

\* suggestions.sort((a, b) => b.score - a.score): stable, highest score first.  All
\* suggestions of one call have the same scoreDen.
InsertByScore(sorted, sug) ==
  LET pos == Cardinality({i \in 1..Len(sorted) : sorted[i].scoreNum >= sug.scoreNum})
  IN SubSeq(sorted, 1, pos) \o <<sug>> \o SubSeq(sorted, pos + 1, Len(sorted))

RECURSIVE SortByScoreFrom(_, _, _)
SortByScoreFrom(sugs, k, acc) ==
  IF k > Len(sugs) THEN acc
  ELSE SortByScoreFrom(sugs, k + 1, InsertByScore(acc, sugs[k]))

suggestMeetingTimes(us, dur, rangeStart, rangeEnd, o) ==
  LET opts == MergeAvailabilityOptions(o)
      userAvailabilities == calculateAvailability(us, rangeStart, rangeEnd, opts)
      timeSlots == generateTimeSlots(rangeStart, rangeEnd, dur, opts)
      sorted == SortByScoreFrom(SuggestLoop(timeSlots, 1, us, userAvailabilities, dur),
                                1, <<>>)
  IN SubSeq(sorted, 1, Min2(10, Len(sorted)))

\* format(date, 'HH:mm'), as the characters of the string.
DigitChar(n) == <<"0", "1", "2", "3", "4", "5", "6", "7", "8", "9">>[n + 1]

FormatHHmm(t) ==
  <<DigitChar(getHours(t) \div 10), DigitChar(getHours(t) % 10), ":",
    DigitChar(getMinutes(t) \div 10), DigitChar(getMinutes(t) % 10)>>

\* preferredTimes.includes(timeString)
IncludesTime(preferred, timeString) ==
  \E i \in 1..Len(preferred) : preferred[i] = timeString

\* The for loop of findOptimalMeetingTime: suggestion.score *= 1.5 for a preferred
\* start.  To keep one denominator for all scores of the call, scoreDen is doubled
\* and scoreNum is tripled for a boosted suggestion and doubled for the others.
BoostPreferred(sugs, preferred) ==
  [k \in 1..Len(sugs) |->
     [sugs[k] EXCEPT !.scoreNum = IF IncludesTime(preferred, FormatHHmm(sugs[k].start))
                                  THEN 3 * @ ELSE 2 * @,
                     !.scoreDen = 2 * @]]

\* null is <<>>.
findOptimalMeetingTime(us, dur, rangeStart, rangeEnd, preferred, o) ==
  LET sugs == suggestMeetingTimes(us, dur, rangeStart, rangeEnd, o)
  IN IF Len(sugs) = 0 THEN <<>>
     ELSE IF Len(preferred) > 0
          THEN SortByScoreFrom(BoostPreferred(sugs, preferred), 1, <<>>)[1]
          ELSE sugs[1]

-----------------------------------------------------------------------------
(* DurationEstimator (src/lib/nlp/duration-estimator.ts)                   *)
(*                                                                         *)
(* A string is the sequence of its characters.  The tables keep a          *)
(* multiplier in tenths (0.5 is 5, 2.5 is 25); the arithmetic is done on   *)
(* the doubles these literals denote.                                      *)

UpperCaseLetters ==
  <<"A", "B", "C", "D", "E", "F", "G", "H", "I", "J", "K", "L", "M",
    "N", "O", "P", "Q", "R", "S", "T", "U", "V", "W", "X", "Y", "Z">>

LowerCaseLetters ==
  <<"a", "b", "c", "d", "e", "f", "g", "h", "i", "j", "k", "l", "m",
    "n", "o", "p", "q", "r", "s", "t", "u", "v", "w", "x", "y", "z">>

\* The lower-case letter of every upper-case letter.
LowerOf == [c \in {UpperCaseLetters[k] : k \in 1..Len(UpperCaseLetters)} |->
              LowerCaseLetters[CHOOSE k \in 1..Len(UpperCaseLetters) :
                                  UpperCaseLetters[k] = c]]

\* String.prototype.toLowerCase on one character and on a string.
LowerChar(c) == IF c \in DOMAIN LowerOf THEN LowerOf[c] ELSE c

toLowerCase(s) == [k \in 1..Len(s) |-> LowerChar(s[k])]

\* The characters the regular expression class \s matches.
IsSpace(c) == c \in {" ", "\t", "\n"}

\* The characters the regular expression class \d matches.
IsDigit(c) == c \in {"0", "1", "2", "3", "4", "5", "6", "7", "8", "9"}

\* sub occurs in s at position k (1-based).
OccursAt(s, sub, k) ==
  /\ k >= 1
  /\ k + Len(sub) - 1 <= Len(s)
  /\ \A m \in 1..Len(sub) : s[k + m - 1] = sub[m]

\* String.prototype.includes; the empty string is included in every string.
includes(s, sub) ==
  \E k \in 1..(Len(s) - Len(sub) + 1) : \A m \in 1..Len(sub) : s[k + m - 1] = sub[m]

\* The first position at or after k that holds no white space.
RECURSIVE SkipSpaces(_, _)
SkipSpaces(s, k) ==
  IF k <= Len(s) /\ IsSpace(s[k]) THEN SkipSpaces(s, k + 1) ELSE k

\* The positions where a run of white space begins, in order.
SpaceRuns(s) ==
  LET BeginsRun(k) == IsSpace(s[k]) /\ (k = 1 \/ ~IsSpace(s[k - 1]))
  IN SelectSeq([k \in 1..Len(s) |-> k], BeginsRun)

\* text.split(/\s+/): every run of white space separates two words, so white
\* space at either end of the text yields an empty word there.
SplitWords(s) ==
  LET runs == SpaceRuns(s)
  IN [w \in 1..(Len(runs) + 1) |->
        SubSeq(s, IF w = 1 THEN 1 ELSE SkipSpaces(s, runs[w - 1]),
                  IF w > Len(runs) THEN Len(s) ELSE runs[w] - 1)]

\* The task patterns in declaration order; a multiplier is <<keyword, tenths>>.
patterns ==
  <<
    [keywords |->
       <<<<"m", "e", "e", "t", "i", "n", "g">>, <<"c", "a", "l", "l">>,
         <<"s", "t", "a", "n", "d", "u", "p">>, <<"s", "y", "n", "c">>,
         <<"c", "h", "e", "c", "k", "-", "i", "n">>,
         <<"d", "i", "s", "c", "u", "s", "s", "i", "o", "n">>>>,
     baseMinutes |-> 30,
     multipliers |->
       <<<<<<"q", "u", "i", "c", "k">>, 5>>, <<<<"b", "r", "i", "e", "f">>, 5>>,
         <<<<"s", "h", "o", "r", "t">>, 5>>, <<<<"l", "o", "n", "g">>, 20>>,
         <<<<"e", "x", "t", "e", "n", "d", "e", "d">>, 25>>,
         <<<<"a", "l", "l", "-", "d", "a", "y">>, 80>>,
         <<<<"t", "e", "a", "m">>, 15>>, <<<<"c", "l", "i", "e", "n", "t">>, 15>>>>],
    [keywords |->
       <<<<"c", "o", "d", "e">>, <<"d", "e", "v", "e", "l", "o", "p">>,
         <<"i", "m", "p", "l", "e", "m", "e", "n", "t">>,
         <<"b", "u", "i", "l", "d">>, <<"c", "r", "e", "a", "t", "e">>,
         <<"p", "r", "o", "g", "r", "a", "m">>, <<"d", "e", "b", "u", "g">>,
         <<"f", "i", "x">>>>,
     baseMinutes |-> 120,
     multipliers |->
       <<<<<<"s", "i", "m", "p", "l", "e">>, 5>>,
         <<<<"b", "a", "s", "i", "c">>, 5>>, <<<<"q", "u", "i", "c", "k">>, 5>>,
         <<<<"c", "o", "m", "p", "l", "e", "x">>, 20>>,
         <<<<"a", "d", "v", "a", "n", "c", "e", "d">>, 25>>,
         <<<<"r", "e", "f", "a", "c", "t", "o", "r">>, 15>>,
         <<<<"p", "r", "o", "t", "o", "t", "y", "p", "e">>, 8>>,
         <<<<"p", "r", "o", "d", "u", "c", "t", "i", "o", "n">>, 20>>>>],
    [keywords |->
       <<<<"r", "e", "s", "e", "a", "r", "c", "h">>,
         <<"a", "n", "a", "l", "y", "z", "e">>,
         <<"i", "n", "v", "e", "s", "t", "i", "g", "a", "t", "e">>,
         <<"s", "t", "u", "d", "y">>, <<"e", "x", "p", "l", "o", "r", "e">>,
         <<"l", "e", "a", "r", "n">>>>,
     baseMinutes |-> 90,
     multipliers |->
       <<<<<<"q", "u", "i", "c", "k">>, 5>>, <<<<"d", "e", "e", "p">>, 20>>,
         <<<<"t", "h", "o", "r", "o", "u", "g", "h">>, 20>>,
         <<<<"c", "o", "m", "p", "r", "e", "h", "e", "n", "s", "i", "v", "e">>, 30>>,
         <<<<"p", "r", "e", "l", "i", "m", "i", "n", "a", "r", "y">>, 7>>>>],
    [keywords |->
       <<<<"d", "o", "c", "u", "m", "e", "n", "t">>, <<"w", "r", "i", "t", "e">>,
         <<"d", "o", "c", "u", "m", "e", "n", "t", "a", "t", "i", "o", "n">>,
         <<"r", "e", "a", "d", "m", "e">>, <<"m", "a", "n", "u", "a", "l">>,
         <<"g", "u", "i", "d", "e">>>>,
     baseMinutes |-> 60,
     multipliers |->
       <<<<<<"q", "u", "i", "c", "k">>, 5>>, <<<<"b", "r", "i", "e", "f">>, 5>>,
         <<<<"d", "e", "t", "a", "i", "l", "e", "d">>, 20>>,
         <<<<"c", "o", "m", "p", "r", "e", "h", "e", "n", "s", "i", "v", "e">>, 30>>,
         <<<<"t", "e", "c", "h", "n", "i", "c", "a", "l">>, 15>>>>],
    [keywords |->
       <<<<"d", "e", "s", "i", "g", "n">>, <<"m", "o", "c", "k", "u", "p">>,
         <<"w", "i", "r", "e", "f", "r", "a", "m", "e">>,
         <<"p", "r", "o", "t", "o", "t", "y", "p", "e">>, <<"u", "i">>, <<"u", "x">>>>,
     baseMinutes |-> 90,
     multipliers |->
       <<<<<<"s", "i", "m", "p", "l", "e">>, 7>>,
         <<<<"c", "o", "m", "p", "l", "e", "x">>, 20>>,
         <<<<"d", "e", "t", "a", "i", "l", "e", "d">>, 15>>,
         <<<<"h", "i", "g", "h", "-", "f", "i", "d", "e", "l", "i", "t", "y">>, 20>>,
         <<<<"l", "o", "w", "-", "f", "i", "d", "e", "l", "i", "t", "y">>, 8>>>>],
    [keywords |->
       <<<<"t", "e", "s", "t">>, <<"t", "e", "s", "t", "i", "n", "g">>,
         <<"q", "a">>, <<"r", "e", "v", "i", "e", "w">>,
         <<"v", "a", "l", "i", "d", "a", "t", "e">>>>,
     baseMinutes |-> 45,
     multipliers |->
       <<<<<<"q", "u", "i", "c", "k">>, 5>>,
         <<<<"t", "h", "o", "r", "o", "u", "g", "h">>, 20>>,
         <<<<"c", "o", "m", "p", "r", "e", "h", "e", "n", "s", "i", "v", "e">>, 25>>,
         <<<<"u", "n", "i", "t">>, 8>>,
         <<<<"i", "n", "t", "e", "g", "r", "a", "t", "i", "o", "n">>, 15>>,
         <<<<"e", "2", "e">>, 20>>>>],
    [keywords |->
       <<<<"e", "m", "a", "i", "l">>, <<"a", "d", "m", "i", "n">>,
         <<"a", "d", "m", "i", "n", "i", "s", "t", "r", "a", "t", "i", "v", "e">>,
         <<"p", "a", "p", "e", "r", "w", "o", "r", "k">>, <<"f", "o", "r", "m">>,
         <<"a", "p", "p", "l", "i", "c", "a", "t", "i", "o", "n">>>>,
     baseMinutes |-> 20,
     multipliers |->
       <<<<<<"q", "u", "i", "c", "k">>, 5>>,
         <<<<"d", "e", "t", "a", "i", "l", "e", "d">>, 15>>,
         <<<<"c", "o", "m", "p", "l", "e", "x">>, 20>>>>],
    [keywords |->
       <<<<"p", "r", "e", "s", "e", "n", "t", "a", "t", "i", "o", "n">>,
         <<"p", "r", "e", "s", "e", "n", "t">>, <<"d", "e", "m", "o">>,
         <<"s", "h", "o", "w", "c", "a", "s", "e">>, <<"p", "i", "t", "c", "h">>>>,
     baseMinutes |-> 45,
     multipliers |->
       <<<<<<"p", "r", "e", "p", "a", "r", "e">>, 30>>,
         <<<<"c", "r", "e", "a", "t", "e">>, 40>>,
         <<<<"d", "e", "l", "i", "v", "e", "r">>, 10>>,
         <<<<"p", "r", "a", "c", "t", "i", "c", "e">>, 15>>>>] >>

\* The multipliers applied whatever the pattern, in declaration order.
commonMultipliers ==
  <<<<<<"s", "m", "a", "l", "l">>, 5>>, <<<<"l", "a", "r", "g", "e">>, 20>>,
    <<<<"h", "u", "g", "e">>, 30>>, <<<<"t", "i", "n", "y">>, 3>>,
    <<<<"m", "a", "s", "s", "i", "v", "e">>, 40>>,
    <<<<"u", "r", "g", "e", "n", "t">>, 8>>, <<<<"a", "s", "a", "p">>, 8>>,
    <<<<"r", "u", "s", "h">>, 7>>, <<<<"s", "i", "m", "p", "l", "e">>, 6>>,
    <<<<"e", "a", "s", "y">>, 5>>, <<<<"h", "a", "r", "d">>, 20>>,
    <<<<"d", "i", "f", "f", "i", "c", "u", "l", "t">>, 25>>,
    <<<<"c", "h", "a", "l", "l", "e", "n", "g", "i", "n", "g">>, 20>>,
    <<<<"h", "o", "u", "r">>, 10>>, <<<<"h", "o", "u", "r", "s">>, 20>>,
    <<<<"d", "a", "y">>, 80>>, <<<<"d", "a", "y", "s">>, 160>>,
    <<<<"w", "e", "e", "k">>, 400>>, <<<<"m", "o", "n", "t", "h">>, 1600>>>>

technicalTerms ==
  <<<<"a", "p", "i">>, <<"d", "a", "t", "a", "b", "a", "s", "e">>,
    <<"s", "e", "r", "v", "e", "r">>, <<"d", "e", "p", "l", "o", "y">>,
    <<"i", "n", "f", "r", "a", "s", "t", "r", "u", "c", "t", "u", "r", "e">>,
    <<"a", "r", "c", "h", "i", "t", "e", "c", "t", "u", "r", "e">>,
    <<"f", "r", "a", "m", "e", "w", "o", "r", "k">>,
    <<"i", "n", "t", "e", "g", "r", "a", "t", "i", "o", "n">>,
    <<"m", "i", "g", "r", "a", "t", "i", "o", "n">>,
    <<"o", "p", "t", "i", "m", "i", "z", "a", "t", "i", "o", "n">>,
    <<"p", "e", "r", "f", "o", "r", "m", "a", "n", "c", "e">>,
    <<"s", "e", "c", "u", "r", "i", "t", "y">>,
    <<"s", "c", "a", "l", "a", "b", "i", "l", "i", "t", "y">>>>

\* The keywords that some word contains or is contained in, in order.
MatchedKeywords(words, keywords) ==
  LET distinct == {words[w] : w \in 1..Len(words)}
      Matches(keyword) ==
        \E word \in distinct : includes(word, keyword) \/ includes(keyword, word)
  IN SelectSeq(keywords, Matches)

\* calculateMatchScore, as the fraction <<matched, keywords.length>>.
calculateMatchScore(words, keywords) ==
  <<Len(MatchedKeywords(words, keywords)), Len(keywords)>>

\* x > y for two fractions with positive denominators.
FractionGreater(x, y) == x[1] * y[2] > y[1] * x[2]

\* The loop over the patterns: pattern is the index of bestMatch, 0 for null.
RECURSIVE BestMatchFrom(_, _, _, _)
BestMatchFrom(words, p, bestMatch, matchScore) ==
  IF p > Len(patterns) THEN [pattern |-> bestMatch, matchScore |-> matchScore]
  ELSE LET score == calculateMatchScore(words, patterns[p].keywords)
       IN IF FractionGreater(score, matchScore)
          THEN BestMatchFrom(words, p + 1, p, score)
          ELSE BestMatchFrom(words, p + 1, bestMatch, matchScore)

BestMatch(words) == BestMatchFrom(words, 1, 0, <<0, 1>>)

\* A positive double is m * 2^e with 2^52 <= m < 2^53; m is kept as four limbs of
\* 14 bits, least significant first, so that every product of limbs fits 32 bits.
LimbBase == 2^14

\* The double of each decimal literal of the source, by its value in tenths (0.5
\* is 5, 2.5 is 25, 160 is 1600).
DoubleOfTenths ==
  (3 :> [m |-> <<13107, 3276, 13107, 1228>>, e |-> -54])
  @@ (5 :> [m |-> <<0, 0, 0, 1024>>, e |-> -53])
  @@ (6 :> [m |-> <<13107, 3276, 13107, 1228>>, e |-> -53])
  @@ (7 :> [m |-> <<9830, 6553, 9830, 1433>>, e |-> -53])
  @@ (8 :> [m |-> <<6554, 9830, 6553, 1638>>, e |-> -53])
  @@ (10 :> [m |-> <<0, 0, 0, 1024>>, e |-> -52])
  @@ (13 :> [m |-> <<3277, 13107, 3276, 1331>>, e |-> -52])
  @@ (14 :> [m |-> <<9830, 6553, 9830, 1433>>, e |-> -52])
  @@ (15 :> [m |-> <<0, 0, 0, 1536>>, e |-> -52])
  @@ (20 :> [m |-> <<0, 0, 0, 1024>>, e |-> -51])
  @@ (25 :> [m |-> <<0, 0, 0, 1280>>, e |-> -51])
  @@ (30 :> [m |-> <<0, 0, 0, 1536>>, e |-> -51])
  @@ (40 :> [m |-> <<0, 0, 0, 1024>>, e |-> -50])
  @@ (80 :> [m |-> <<0, 0, 0, 1024>>, e |-> -49])
  @@ (160 :> [m |-> <<0, 0, 0, 1024>>, e |-> -48])
  @@ (400 :> [m |-> <<0, 0, 0, 1280>>, e |-> -47])
  @@ (1600 :> [m |-> <<0, 0, 0, 1280>>, e |-> -45])

\* The double 1 + (technicalMatches.length * 0.2), by the number of matches.
TechnicalFactor ==
  <<[m |-> <<13107, 3276, 13107, 1228>>, e |-> -52],
    [m |-> <<9830, 6553, 9830, 1433>>, e |-> -52],
    [m |-> <<6554, 9830, 6553, 1638>>, e |-> -52],
    [m |-> <<3277, 13107, 3276, 1843>>, e |-> -52],
    [m |-> <<0, 0, 0, 1024>>, e |-> -51],
    [m |-> <<6554, 9830, 6553, 1126>>, e |-> -51],
    [m |-> <<13108, 3276, 13107, 1228>>, e |-> -51],
    [m |-> <<3277, 13107, 3276, 1331>>, e |-> -51],
    [m |-> <<9830, 6553, 9830, 1433>>, e |-> -51],
    [m |-> <<0, 0, 0, 1536>>, e |-> -51],
    [m |-> <<6554, 9830, 6553, 1638>>, e |-> -51],
    [m |-> <<13108, 3276, 13107, 1740>>, e |-> -51],
    [m |-> <<3277, 13107, 3276, 1843>>, e |-> -51]>>

\* The limbs of a sum of limb products: each entry is reduced modulo LimbBase and
\* its excess carried into the next.
RECURSIVE CarryFrom(_, _, _)
CarryFrom(sums, k, carry) ==
  IF k > Len(sums) THEN <<carry>>
  ELSE <<(sums[k] + carry) % LimbBase>>
       \o CarryFrom(sums, k + 1, (sums[k] + carry) \div LimbBase)

\* Limb k of a limb sequence, 0 outside of it.
LimbAt(limbs, k) == IF k \in 1..Len(limbs) THEN limbs[k] ELSE 0

\* The sum of the products of limbs that weigh LimbBase^(k-1) in a product.
LimbProducts(a, b, k) ==
  a[1] * LimbAt(b, k) + a[2] * LimbAt(b, k - 1)
  + a[3] * LimbAt(b, k - 2) + a[4] * LimbAt(b, k - 3)

\* The exact product of two mantissas: eight limbs, below 2^106.
MantissaProduct(a, b) ==
  CarryFrom(<<LimbProducts(a, b, 1), LimbProducts(a, b, 2), LimbProducts(a, b, 3),
              LimbProducts(a, b, 4), LimbProducts(a, b, 5), LimbProducts(a, b, 6),
              LimbProducts(a, b, 7)>>, 1, 0)

\* Bit j (from 0) of a limb sequence.
BitAt(limbs, j) ==
  IF j < 0 THEN 0 ELSE (LimbAt(limbs, (j \div 14) + 1) \div 2^(j % 14)) % 2

\* Some bit below bit j is set.
AnyBitBelow(limbs, j) ==
  \E k \in 0..(j - 1) : BitAt(limbs, k) = 1

\* Limb k of the limb sequence shifted right by s bits.
ShiftedLimb(limbs, s, k) ==
  LimbAt(limbs, k + (s \div 14)) \div 2^(s % 14)
  + (LimbAt(limbs, k + (s \div 14) + 1) % 2^(s % 14)) * 2^(14 - (s % 14))

\* The mantissa plus one.
Increment(m) ==
  LET c1 == IF m[1] + 1 = LimbBase THEN 1 ELSE 0
      c2 == IF m[2] + c1 = LimbBase THEN 1 ELSE 0
      c3 == IF m[3] + c2 = LimbBase THEN 1 ELSE 0
  IN <<(m[1] + 1) % LimbBase, (m[2] + c1) % LimbBase, (m[3] + c2) % LimbBase, m[4] + c3>>

\* x * y on doubles (IEEE 754 binary64, round to nearest, ties to the even
\* mantissa); the operands of the estimator are positive and far from overflow and
\* underflow.
Multiply(x, y) ==
  LET product == MantissaProduct(x.m, y.m)
      s == IF BitAt(product, 105) = 1 THEN 53 ELSE 52
      kept == <<ShiftedLimb(product, s, 1), ShiftedLimb(product, s, 2),
                ShiftedLimb(product, s, 3), ShiftedLimb(product, s, 4)>>
      roundUp == /\ BitAt(product, s - 1) = 1
                 /\ AnyBitBelow(product, s - 1) \/ kept[1] % 2 = 1
      rounded == IF roundUp THEN Increment(kept) ELSE kept
  IN [e |-> x.e + y.e + s + (IF rounded[4] = 2^11 THEN 1 ELSE 0),
      m |-> IF rounded[4] = 2^11 THEN <<0, 0, 0, 2^10>> ELSE rounded]

\* The double of a positive integer below LimbBase: its bits moved up so that the
\* highest is bit 52.
DoubleOfInteger(n) ==
  LET bits == CHOOSE b \in 1..14 : 2^(b - 1) <= n /\ n < 2^b
      shift == 53 - bits
      moved == CarryFrom(<<n * 2^(shift % 14)>>, 1, 0)
  IN [m |-> SubSeq([k \in 1..(shift \div 14) |-> 0] \o moved, 1, 4), e |-> -shift]

\* Math.round of a positive double below 2^31 that is no integer beyond 2^52: the
\* nearest integer, a tie going up.
MathRound(x) ==
  ShiftedLimb(x.m, -x.e, 1) + ShiftedLimb(x.m, -x.e, 2) * LimbBase
  + ShiftedLimb(x.m, -x.e, 3) * LimbBase * LimbBase
  + BitAt(x.m, -x.e - 1)

\* The entries of the table whose keyword the text includes, in order.
AppliedMultipliers(text, table) ==
  LET Applies(entry) == includes(text, entry[1])
  IN SelectSeq(table, Applies)

\* total *= factor for the first k of the factors, from the first on.
RECURSIVE MultiplyAll(_, _, _)
MultiplyAll(total, factors, k) ==
  IF k = 0 THEN total
  ELSE Multiply(MultiplyAll(total, factors, k - 1), factors[k])

\* The loops over Object.entries(multipliers), begun with totalMultiplier =
\* total: every keyword the text includes multiplies it.
ApplyMultipliers(text, table, total) ==
  LET applied == AppliedMultipliers(text, table)
  IN MultiplyAll(total, [k \in 1..Len(applied) |-> DoubleOfTenths[applied[k][2]]],
                 Len(applied))

\* The unit alternatives and the minutes per unit of the four regular
\* expressions, in the order they are tried.
timePatterns ==
  << [units |-> <<<<"m", "i", "n", "u", "t", "e">>, <<"m", "i", "n">>>>, multiplier |-> 1],
     [units |-> <<<<"h", "o", "u", "r">>, <<"h", "r">>>>, multiplier |-> 60],
     [units |-> <<<<"d", "a", "y">>>>, multiplier |-> 480],
     [units |-> <<<<"w", "e", "e", "k">>>>, multiplier |-> 2400] >>

\* The last position of the run of digits that begins at k.
RECURSIVE DigitRunEnd(_, _)
DigitRunEnd(s, k) ==
  IF k + 1 <= Len(s) /\ IsDigit(s[k + 1]) THEN DigitRunEnd(s, k + 1) ELSE k

\* /(\d+)\s*(unit|...)s?/ matches at position k: \d+ and \s* are greedy and a
\* unit starts with a letter, so only the longest runs can be followed by one.
MatchesAt(s, k, units) ==
  /\ IsDigit(s[k])
  /\ \E u \in 1..Len(units) :
        OccursAt(s, units[u], SkipSpaces(s, DigitRunEnd(s, k) + 1))

\* parseInt of a string of decimal digits.
RECURSIVE parseInt(_)
parseInt(digits) ==
  IF digits = <<>> THEN 0
  ELSE 10 * parseInt(SubSeq(digits, 1, Len(digits) - 1)) + DigitValue(digits[Len(digits)])

\* text.match(pattern): the captured group 1 of the leftmost match, <<>> for null.
MatchGroup(s, units) ==
  LET starts == {k \in 1..Len(s) : MatchesAt(s, k, units)}
  IN IF starts = {} THEN <<>>
     ELSE LET first == CHOOSE k \in starts : \A m \in starts : k <= m
          IN <<SubSeq(s, first, DigitRunEnd(s, first))>>

\* extractTimeIndicators: <<minutes>> from the first pattern that matches, <<>>
\* for null.
RECURSIVE ExtractFrom(_, _)
ExtractFrom(text, p) ==
  IF p > Len(timePatterns) THEN <<>>
  ELSE LET match == MatchGroup(text, timePatterns[p].units)
       IN IF match # <<>> THEN <<parseInt(match[1]) * timePatterns[p].multiplier>>
          ELSE ExtractFrom(text, p + 1)

extractTimeIndicators(text) == ExtractFrom(text, 1)

\* A JavaScript number | null used as a condition: null and 0 are false.
Truthy(result) == result # <<>> /\ result[1] # 0

\* Mutant: the collaboration words do not count.
calculateComplexityMultiplierNoTeam(text, wordCount) ==
  LET technicalMatches ==
        Cardinality({k \in 1..Len(technicalTerms) : includes(text, technicalTerms[k])})
      factors ==
        (IF wordCount > 20 THEN <<DoubleOfTenths[13]>> ELSE <<>>)
        \o (IF wordCount > 50 THEN <<DoubleOfTenths[15]>> ELSE <<>>)
        \o (IF technicalMatches > 0 THEN <<TechnicalFactor[technicalMatches]>> ELSE <<>>)
        \o (IF \/ includes(text, <<"s", "t", "e", "p">>)
               \/ includes(text, <<"p", "h", "a", "s", "e">>)
               \/ includes(text, <<"s", "t", "a", "g", "e">>)
            THEN <<DoubleOfTenths[14]>> ELSE <<>>)
  IN MultiplyAll(DoubleOfTenths[10], factors, Len(factors))

\* calculateComplexityMultiplier: multiplier starts as 1 and every condition that
\* holds multiplies it by its factor, in the order of the statements.
calculateComplexityMultiplier(text, wordCount) ==
  LET technicalMatches ==
        Cardinality({k \in 1..Len(technicalTerms) : includes(text, technicalTerms[k])})
      factors ==
        (IF wordCount > 20 THEN <<DoubleOfTenths[13]>> ELSE <<>>)
        \o (IF wordCount > 50 THEN <<DoubleOfTenths[15]>> ELSE <<>>)
        \o (IF technicalMatches > 0 THEN <<TechnicalFactor[technicalMatches]>> ELSE <<>>)
        \o (IF \/ includes(text, <<"s", "t", "e", "p">>)
               \/ includes(text, <<"p", "h", "a", "s", "e">>)
               \/ includes(text, <<"s", "t", "a", "g", "e">>)
            THEN <<DoubleOfTenths[14]>> ELSE <<>>)
        \o (IF \/ includes(text, <<"t", "e", "a", "m">>)
               \/ includes(text, <<"c", "o", "l", "l", "a", "b", "o", "r", "a", "t", "e">>)
               \/ includes(text, <<"c", "o", "o", "r", "d", "i", "n", "a", "t", "e">>)
            THEN <<DoubleOfTenths[13]>> ELSE <<>>)
  IN MultiplyAll(DoubleOfTenths[10], factors, Len(factors))

\* `${title} ${description || ''}`.toLowerCase(); description is <<>> when it is
\* undefined and <<string>> when it is given.
TextOf(titleArg, descriptionArg) ==
  toLowerCase(titleArg \o <<" ">>
              \o (IF descriptionArg = <<>> THEN <<>> ELSE descriptionArg[1]))

\* totalMultiplier after the pattern's and the common multipliers.
KeywordMultiplier(text, bestMatch) ==
  ApplyMultipliers(text, commonMultipliers,
                   IF bestMatch = 0 THEN DoubleOfTenths[10]
                   ELSE ApplyMultipliers(text, patterns[bestMatch].multipliers,
                                         DoubleOfTenths[10]))

\* Mutant: the estimate is returned as it was rounded.
estimateDurationUnclamped(titleArg, descriptionArg) ==
  LET text == TextOf(titleArg, descriptionArg)
      words == SplitWords(text)
      bestMatch == BestMatch(words).pattern
      baseEstimate == IF bestMatch # 0 THEN patterns[bestMatch].baseMinutes ELSE 60
      timeMatch == extractTimeIndicators(text)
      total == KeywordMultiplier(text, bestMatch)
      complexity == calculateComplexityMultiplier(text, Len(words))
      rounded == MathRound(Multiply(DoubleOfInteger(baseEstimate),
                                    Multiply(total, complexity)))
  IN IF Truthy(timeMatch) THEN timeMatch[1]
     ELSE rounded

estimateDuration(titleArg, descriptionArg) ==
  LET text == TextOf(titleArg, descriptionArg)
      words == SplitWords(text)
      bestMatch == BestMatch(words).pattern
      baseEstimate == IF bestMatch # 0 THEN patterns[bestMatch].baseMinutes ELSE 60
      timeMatch == extractTimeIndicators(text)
      total == KeywordMultiplier(text, bestMatch)
      complexity == calculateComplexityMultiplier(text, Len(words))
      rounded == MathRound(Multiply(DoubleOfInteger(baseEstimate),
                                    Multiply(total, complexity)))
  IN IF Truthy(timeMatch) THEN timeMatch[1]
     ELSE Max2(5, Min2(480, rounded))

\* getEstimationExplanation; each entry of reasoning keeps the values its message
\* is built from.
getEstimationExplanation(titleArg, descriptionArg) ==
  LET text == TextOf(titleArg, descriptionArg)
      words == SplitWords(text)
      best == BestMatch(words)
      bestMatch == best.pattern
      matchScore == best.matchScore
      identified ==
        IF bestMatch = 0 THEN <<>>
        ELSE <<[kind |-> "identified",
                keywords |-> MatchedKeywords(words, patterns[bestMatch].keywords),
                base |-> patterns[bestMatch].baseMinutes]>>
      appliedMultipliers ==
        (IF bestMatch = 0 THEN <<>>
         ELSE AppliedMultipliers(text, patterns[bestMatch].multipliers))
        \o AppliedMultipliers(text, commonMultipliers)
      applied ==
        IF Len(appliedMultipliers) > 0
        THEN <<[kind |-> "multipliers", applied |-> appliedMultipliers]>> ELSE <<>>
      c1 == IF 2 * matchScore[1] > matchScore[2] THEN "medium" ELSE "low"
      c2 == IF \/ 5 * matchScore[1] > 4 * matchScore[2]
               \/ Truthy(extractTimeIndicators(text))
            THEN "high" ELSE c1
      c3 == IF Len(words) > 10 THEN (IF c2 = "low" THEN "medium" ELSE "high") ELSE c2
  IN [estimate |-> estimateDuration(titleArg, descriptionArg),
      reasoning |-> identified \o applied,
      confidence |-> c3]

-----------------------------------------------------------------------------
(* API routes (src/app/api/conflicts/route.ts): the conflicts GET and POST *)
(* handlers and the event creation POST handler.  A field of a request     *)
(* that is undefined is <<>>, one that is given is <<value>>.  The strings *)
(* of a conflict (description, suggestions) and of an event (title) are    *)
(* left out of the rows and responses.                                     *)

\* getConflictStats
getConflictStats(cs) ==
  [total |-> Len(cs),
   bySeverity |-> [sev \in {"low", "medium", "high", "critical"} |->
                     Cardinality({k \in 1..Len(cs) : cs[k].severity = sev})],
   byType |-> [ty \in {"overlap", "double_booking", "back_to_back", "travel_time"} |->
                 Cardinality({k \in 1..Len(cs) : cs[k].type = ty})]]

\* prisma.calendar.findMany: the ids of the calendars of the session user.
UserCalendars == {1, 2}

\* The options both conflict handlers pass to the detector.
RouteOptions ==
  [includeBackToBack |-> TRUE, travelTimeMinutes |-> 15, workPersonalSeparation |-> TRUE]

\* new Date() when a request is handled.
Now == At(0, 0, 0, 0)

ErrorResponse(status, error) == [status |-> status, error |-> error]

\* The orders in which a findMany without orderBy may return the rows.
AnyOrder(rows) ==
  {[i \in 1..Len(rows) |-> rows[p[i]]] :
     p \in {q \in [1..Len(rows) -> 1..Len(rows)] :
              \A i, j \in 1..Len(rows) : i # j => q[i] # q[j]}}

\* The orders in which a findMany with orderBy startTime asc may return them:
\* rows with the same startTime come in any order.
OrderedByStartTime(rows) ==
  {ordered \in AnyOrder(rows) :
     \A i, j \in 1..Len(ordered) : i < j => ordered[i].startTime <= ordered[j].startTime}

\* timeMin of the conflicts GET handler.
TimeMin(query) ==
  IF query.startDate # <<>> THEN query.startDate[1]
  ELSE IF query.includePast THEN Now - 7 * MsPerDay ELSE Now

\* t <= timeMax for the timeMax of the conflicts GET handler.  addDays(now, 30) is
\* beyond the integers at hand, so t <= now + 30 days is decided in whole days.
NotAfterTimeMax(t, query) ==
  IF query.endDate # <<>> THEN t <= query.endDate[1]
  ELSE (t - Now - 1) \div MsPerDay < 30

\* The where clause of the conflicts GET handler.
EventsInRange(rows, query) ==
  LET InRange(e) == /\ e.calendarId \in UserCalendars
                    /\ e.startTime >= TimeMin(query)
                    /\ NotAfterTimeMax(e.endTime, query)
  IN SelectSeq(rows, InRange)

\* The severity column of a new eventConflict row.
RecordSeverity(conflict) ==
  IF conflict.type = "double_booking" THEN "critical"
  ELSE IF conflict.severity = "high" THEN "high"
  ELSE IF conflict.severity = "medium" THEN "medium"
  ELSE "low"

\* The rows the conflicts GET handler creates: one for each detected conflict whose
\* pair has no row in either direction.
NewConflictRecords(detected, existingConflicts) ==
  LET HasRecord(c) ==
        \E ec \in existingConflicts :
          \/ (ec.eventId = c.primaryEvent.id /\ ec.conflictId = c.conflictingEvent.id)
          \/ (ec.eventId = c.conflictingEvent.id /\ ec.conflictId = c.primaryEvent.id)
  IN {[eventId |-> detected[k].primaryEvent.id,
       conflictId |-> detected[k].conflictingEvent.id,
       severity |-> RecordSeverity(detected[k])] :
        k \in {m \in 1..Len(detected) : ~HasRecord(detected[m])}}

\* A conflict as the handlers format it.
FormattedConflict(conflict) ==
  [id |-> conflict.id,
   type |-> conflict.type,
   severity |-> conflict.severity,
   overlapDuration |-> conflict.overlapDuration,
   primaryEvent |-> conflict.primaryEvent.id,
   conflictingEvent |-> conflict.conflictingEvent.id]

\* GET /api/conflicts, given the event rows prisma returned: the eventConflict
\* table afterwards and the response.
conflictsGET(session, rows, conflictRows) ==
  IF ~session
  THEN [dbConflicts |-> conflictRows, response |-> ErrorResponse(401, "Unauthorized")]
  ELSE LET detected == detectConflicts(rows, RouteOptions)
           ids == {rows[k].id : k \in 1..Len(rows)}
           existingConflicts ==
             {ec \in conflictRows : ec.eventId \in ids \/ ec.conflictId \in ids}
       IN [dbConflicts |-> conflictRows \cup NewConflictRecords(detected, existingConflicts),
           response |-> [status |-> 200,
                         conflicts |-> [k \in 1..Len(detected) |->
                                          FormattedConflict(detected[k])],
                         stats |-> getConflictStats(detected),
                         eventsAnalyzed |-> Len(rows)]]

\* The where clause of the conflicts POST handler: the stored events that might
\* conflict with the new one.
MightConflict(rows, eventData) ==
  LET Selected(e) ==
        /\ e.calendarId \in UserCalendars
        /\ \/ (e.startTime < eventData.endTime /\ e.endTime > eventData.startTime)
           \/ (e.startTime >= eventData.startTime /\ e.startTime < eventData.endTime)
  IN SelectSeq(rows, Selected)

\* The event the conflicts POST handler builds from eventData; id 0 is 'new-event'.
NewEventOf(eventData) ==
  [id |-> IF eventData.id # <<>> THEN eventData.id[1] ELSE 0,
   startTime |-> eventData.startTime,
   endTime |-> eventData.endTime,
   calendarId |-> eventData.calendarId,
   isWork |-> eventData.isWork # <<>> /\ eventData.isWork[1]]

\* POST /api/conflicts, given the event rows prisma returned: the response.
conflictsPOST(session, body, existingEvents) ==
  IF ~session THEN ErrorResponse(401, "Unauthorized")
  ELSE IF body.eventData = <<>> THEN ErrorResponse(400, "Event data is required")
  ELSE LET detected == detectConflictsForEvent(NewEventOf(body.eventData[1]),
                                               existingEvents, RouteOptions)
       IN [status |-> 200,
           hasConflicts |-> Len(detected) > 0,
           conflicts |-> [k \in 1..Len(detected) |-> FormattedConflict(detected[k])],
           conflictCount |-> Len(detected),
           highPriorityConflicts |->
             Cardinality({k \in 1..Len(detected) :
                            detected[k].severity \in {"high", "critical"}})]

\* The row prisma.event.create stores; ids are given in the order of creation.
CreatedEvent(body, rows) ==
  [id |-> Len(rows) + 1,
   startTime |-> body.startTime[1],
   endTime |-> body.endTime[1],
   calendarId |-> body.calendarId[1],
   isWork |-> body.isWork # <<>> /\ body.isWork[1]]

\* POST /api/events: the event table afterwards and the response.
eventsPOST(session, body, rows) ==
  IF ~session
  THEN [dbEvents |-> rows, response |-> ErrorResponse(401, "Unauthorized")]
  ELSE IF \/ body.title = <<>>
          \/ body.startTime = <<>>
          \/ body.endTime = <<>>
          \/ body.calendarId = <<>>
  THEN [dbEvents |-> rows, response |-> ErrorResponse(400, "Missing required fields")]
  ELSE IF body.calendarId[1] \notin UserCalendars
  THEN [dbEvents |-> rows,
        response |-> ErrorResponse(404, "Calendar not found or unauthorized")]
  ELSE [dbEvents |-> Append(rows, CreatedEvent(body, rows)),
        response |-> [status |-> 200, event |-> CreatedEvent(body, rows)]]

-----------------------------------------------------------------------------
(* Engine instances shared by several callers                              *)
(*                                                                         *)
(* The methods are synchronous, so a call runs from its first statement to *)
(* its return before another caller's call starts.  What one call can      *)
(* leave behind for the next is the fields of the instance.  A call is     *)
(* modelled with the instance it runs on: it reads the fields of `this`    *)
(* and yields what it returns together with the fields afterwards.  The    *)
(* tables of a DurationEstimator are assigned by no statement of the       *)
(* class and stay the definitions patterns and commonMultipliers.          *)

\* The fields of a ConflictDetector after construction.
NewConflictDetector == [defaultOptions |-> defaultOptions]

\* The fields of an AvailabilityCalculator after construction.
NewAvailabilityCalculator ==
  [defaultWorkingHours |-> defaultWorkingHours,
   defaultOptions |-> availabilityDefaultOptions]

NewEngines ==
  [detector |-> NewConflictDetector, calculator |-> NewAvailabilityCalculator]

\* { ...defaults, ...o }
Spread(defaults, o) ==
  [f \in (DOMAIN defaults) \cup (DOMAIN o) |->
     IF f \in DOMAIN o THEN o[f] ELSE defaults[f]]

\* Mutant: detectConflicts keeps the merged options in this.defaultOptions.
detectConflictsOnKeepingOptions(this, evs, o) ==
  [returned |-> detectConflicts(evs, Spread(this.defaultOptions, o)),
   this |-> [this EXCEPT !.defaultOptions = Spread(this.defaultOptions, o)]]

\* detectConflicts on the instance `this`: opts is { ...this.defaultOptions,
\* ...options }, which has every field, and no field of `this` is assigned.
detectConflictsOn(this, evs, o) ==
  [returned |-> detectConflicts(evs, Spread(this.defaultOptions, o)),
   this |-> this]

\* calculateAvailability on the instance `this`; every user of the runs carries
\* working hours, so this.defaultWorkingHours is not read.
calculateAvailabilityOn(this, us, rangeStart, rangeEnd, o) ==
  [returned |-> calculateAvailability(us, rangeStart, rangeEnd,
                                      Spread(this.defaultOptions, o)),
   this |-> this]

\* suggestMeetingTimes on the instance `this`; generateTimeSlots takes
\* options.workingHours || this.defaultWorkingHours.
suggestMeetingTimesOn(this, us, dur, rangeStart, rangeEnd, o) ==
  [returned |-> suggestMeetingTimes(
                  us, dur, rangeStart, rangeEnd,
                  Spread([workingHours |-> this.defaultWorkingHours],
                         Spread(this.defaultOptions, o))),
   this |-> this]

-----------------------------------------------------------------------------
(* Inputs of the ConflictDetector runs                                     *)

MaxEvents == 3

\* <<startTime, endTime>> of the events tried; the last one has zero length
\* (no caller checks endTime > startTime before storing or passing an event).
\* The two afternoon events share 40 minutes, less than half of either.
EventIntervals ==
  { <<At(0, 8, 0, 0),  At(0, 9, 0, 0)>>,
    <<At(0, 13, 0, 0), At(0, 15, 0, 0)>>,
    <<At(0, 14, 20, 0), At(0, 16, 0, 0)>>,
    <<At(0, 9, 0, 0),  At(0, 9, 40, 0)>>,
    <<At(0, 9, 4, 30), At(0, 9, 50, 0)>>,
    <<At(0, 9, 30, 0), At(0, 10, 30, 0)>>,
    <<At(0, 9, 55, 0), At(0, 10, 20, 0)>>,
    <<At(0, 17, 0, 0), At(0, 18, 0, 0)>>,
    <<At(0, 9, 0, 0),  At(0, 9, 0, 0)>> }

\* <<calendarId, isWork>> of the events tried.
EventTags == { <<1, TRUE>>, <<2, FALSE>>, <<2, TRUE>> }

EventShapes == EventIntervals \X EventTags

\* Event ids are database keys: distinct within a list.
MakeEvent(shape, eventId) ==
  [id |-> eventId,
   startTime |-> shape[1][1],
   endTime |-> shape[1][2],
   calendarId |-> shape[2][1],
   isWork |-> shape[2][2]]

\* The options arguments tried; an absent field takes its default.
OptionChoices ==
  { <<>>,
    [includeBackToBack |-> TRUE, travelTimeMinutes |-> 15, workPersonalSeparation |-> TRUE],
    [includeBackToBack |-> FALSE, workPersonalSeparation |-> TRUE],
    [travelTimeMinutes |-> 0, workPersonalSeparation |-> TRUE],
    [travelTimeMinutes |-> 5] }

\* No ConflictDetector call is part of the run.
IdleConflict ==
  /\ events = <<>>
  /\ options = <<>>
  /\ conflicts = <<>>
  /\ eventConflicts = <<>>
  /\ cdPhase = "idle"

\* No AvailabilityCalculator call is part of the run.
IdleAvailability ==
  /\ users = <<>>
  /\ duration = 0
  /\ startDate = 0
  /\ endDate = 0
  /\ avOptions = <<>>
  /\ freeSlots = <<>>
  /\ suggestions = <<>>
  /\ preferredTimes = <<>>
  /\ optimal = <<>>
  /\ avPhase = "idle"

\* No DurationEstimator call is part of the run.
IdleEstimator ==
  /\ title = <<>>
  /\ description = <<>>
  /\ estimate = 0
  /\ explanation = <<>>
  /\ dePhase = "idle"

\* No API route has handled a request and the tables are empty.
IdleRoutes ==
  /\ dbEvents = <<>>
  /\ dbConflicts = {}
  /\ request = [route |-> "none"]
  /\ response = [status |-> 0]

\* The shared instances are as constructed and no caller has called.
IdleDropdown ==
  /\ dbNotifications = <<>>
  /\ notifications = <<>>
  /\ unreadCount = 0
  /\ fetchReply = [state |-> "idle"]
  /\ pollReplies = <<>>
  /\ ticks = 0

IdleScheduled ==
  /\ now = 0
  /\ schedEvents = {}
  /\ schedTasks = {}
  /\ schedNotifications = <<>>
  /\ schedResponse = <<>>
  /\ posts = 0

IdleShared ==
  /\ engines = NewEngines
  /\ calls = <<>>
  /\ results = <<>>

InitConflict ==
  /\ IdleAvailability
  /\ IdleEstimator
  /\ IdleRoutes
  /\ IdleShared
  /\ IdleDropdown
  /\ IdleScheduled
  /\ \E n \in 0..MaxEvents : \E shapes \in [1..n -> EventShapes] :
        events = [i \in 1..n |-> MakeEvent(shapes[i], i)]
  /\ options \in OptionChoices
  /\ conflicts = <<>>
  /\ eventConflicts = <<>>
  /\ cdPhase = "input"

\* A caller runs detector.detectConflicts(events, options).
DetectConflicts ==
  /\ cdPhase = "input"
  /\ conflicts' = detectConflicts(events, options)
  /\ cdPhase' = "done"
  /\ UNCHANGED <<events, options, eventConflicts, avVars, deVars, rtVars, shVars, ndVars, snVars>>

\* The event a caller checks before creating or moving it: the last of the list.
NewEvent == events[Len(events)]

\* The events already stored: the others.
ExistingEvents == SubSeq(events, 1, Len(events) - 1)

\* A caller runs detector.detectConflictsForEvent(newEvent, existingEvents, options);
\* the existing events may or may not hold the checked event itself.
DetectConflictsForEvent ==
  /\ cdPhase = "input"
  /\ Len(events) >= 1
  /\ \E existingEvents \in {ExistingEvents, events} :
        eventConflicts' = detectConflictsForEvent(NewEvent, existingEvents, options)
  /\ cdPhase' = "checked"
  /\ UNCHANGED <<events, options, conflicts, avVars, deVars, rtVars, shVars, ndVars, snVars>>

NextConflict == DetectConflicts \/ DetectConflictsForEvent

SpecConflict == InitConflict /\ [][NextConflict]_vars
-----------------------------------------------------------------------------
(* Properties of detectConflicts                                           *)

WellFormed(e) == e.startTime < e.endTime

\* The event ids of a conflict, as an unordered pair.
IdPair(c) == {c.primaryEvent.id, c.conflictingEvent.id}

\* The returned conflicts whose events are a and b, in either role.
ConflictsOf(cs, a, b) == {k \in 1..Len(cs) : IdPair(cs[k]) = {a.id, b.id}}

\* What a list of conflicts says, whatever the order of the events in it.
Summary(cs) == {<<IdPair(cs[k]), cs[k].type, cs[k].severity>> : k \in 1..Len(cs)}

\* The rule that produced a conflict: only the overlap rule sets overlapDuration,
\* only the back-to-back rule gives travel_time.
RuleOf(c) ==
  IF c.type = "travel_time" THEN "back_to_back"
  ELSE IF c.overlapDuration = <<>> THEN "separation"
  ELSE "overlap"

\* Open-interval overlap, or the same interval.
OverlapFires(a, b) ==
  \/ (a.startTime < b.endTime /\ b.startTime < a.endTime)
  \/ (a.startTime = b.startTime /\ a.endTime = b.endTime)

\* The gap from the end of the event that starts first to the start of the other.
\* Two events that start together and do not overlap have no earlier and later
\* event (one of them has no length): they are left out by Ordered.
Ordered(a, b) == a.startTime < b.startTime

GapMs(a, b) == b.startTime - a.endTime

BackToBackFires(a, b, opts) ==
  /\ opts.includeBackToBack
  /\ GapMs(a, b) >= 0
  /\ GapMs(a, b) < opts.travelTimeMinutes * MsPerMinute

SeparationFires(a, b, opts) ==
  /\ opts.workPersonalSeparation
  /\ a.isWork # b.isWork
  /\ LET w == IF a.isWork THEN a ELSE b
     IN getHours(w.startTime) < 9 \/ getHours(w.startTime) >= 17

FirstRule(a, b, opts) ==
  IF OverlapFires(a, b) THEN "overlap"
  ELSE IF BackToBackFires(a, b, opts) THEN "back_to_back"
  ELSE IF SeparationFires(a, b, opts) THEN "separation"
  ELSE "none"

\* C2: for two well-formed events A and B, detectConflicts([A, B]) and
\* detectConflicts([B, A]) report the same unordered id pair with the same type
\* and severity, or both report nothing.
C2_Symmetric ==
  (cdPhase = "done" /\ Len(events) = 2 /\ WellFormed(events[1]) /\ WellFormed(events[2]))
    => LET swapped == detectConflicts(<<events[2], events[1]>>, options)
       IN /\ Len(swapped) = Len(conflicts)
          /\ Summary(swapped) = Summary(conflicts)

\* C2 witness: the later event comes first in the input and the pair is reported
\* as a travel-time conflict.
C2_Witness ==
  /\ cdPhase = "done" /\ Len(events) = 2
  /\ WellFormed(events[1]) /\ WellFormed(events[2])
  /\ events[1].startTime > events[2].startTime
  /\ Len(conflicts) = 1 /\ conflicts[1].type = "travel_time"

\* C3: two events of different calendars with equal starts and equal ends get
\* exactly one conflict, double_booking / critical, under every options value.
C3_DoubleBooking ==
  cdPhase = "done" =>
    \A i, j \in 1..Len(events) :
      (i < j
       /\ events[i].calendarId # events[j].calendarId
       /\ events[i].startTime = events[j].startTime
       /\ events[i].endTime = events[j].endTime)
      => /\ Cardinality(ConflictsOf(conflicts, events[i], events[j])) = 1
         /\ \A k \in ConflictsOf(conflicts, events[i], events[j]) :
               conflicts[k].type = "double_booking" /\ conflicts[k].severity = "critical"

\* C3 witness: a double booking among three events, with back-to-back detection off
\* and separation on.
C3_Witness ==
  /\ cdPhase = "done" /\ Len(events) = 3
  /\ ~MergeOptions(options).includeBackToBack
  /\ MergeOptions(options).workPersonalSeparation
  /\ \E k \in 1..Len(conflicts) : conflicts[k].type = "double_booking"

C10_DifferentCalendars ==
  \A k \in 1..Len(conflicts) :
    conflicts[k].primaryEvent.calendarId # conflicts[k].conflictingEvent.calendarId

\* C10 witness: two overlapping events share a calendar, and conflicts were returned.
C10_Witness ==
  /\ cdPhase = "done" /\ conflicts # <<>>
  /\ \E i, j \in 1..Len(events) :
        /\ i # j /\ events[i].calendarId = events[j].calendarId
        /\ OverlapFires(events[i], events[j])

\* The type and severity of the conflicts a list reports for the pair {a, b}.
PairSummary(cs, a, b) == {<<cs[k].type, cs[k].severity>> : k \in ConflictsOf(cs, a, b)}

\* C11: detectConflictsForEvent(e, E) reports a conflict between e and an event x
\* of E exactly when detectConflicts(E plus e) reports one for the pair {e, x}, and
\* with the same type and severity.
C11_ForEventMatchesDetectConflicts ==
  cdPhase = "checked" =>
    LET all == detectConflicts(events, options)
    IN \A k \in 1..Len(ExistingEvents) :
         PairSummary(eventConflicts, NewEvent, ExistingEvents[k])
           = PairSummary(all, NewEvent, ExistingEvents[k])

\* Open-interval overlap of two events.
EventsOverlap(a, b) == a.startTime < b.endTime /\ b.startTime < a.endTime

SameInterval(a, b) == a.startTime = b.startTime /\ a.endTime = b.endTime

\* The length of the intersection of two overlapping events, in milliseconds.
IntersectionMs(a, b) == Min2(a.endTime, b.endTime) - Max2(a.startTime, b.startTime)

ShorterMs(a, b) == Min2(a.endTime - a.startTime, b.endTime - b.startTime)

\* The severity the rule gives an overlap of d minutes.
OverlapSeverity(d, a, b) ==
  IF 2 * d * MsPerMinute > ShorterMs(a, b) THEN "high"
  ELSE IF d > 30 THEN "medium"
  ELSE "low"

\* d is the whole number of minutes nearest to ms milliseconds, the upper one when
\* two are equally near.
NearestMinute(d, ms) ==
  /\ 2 * (ms - d * MsPerMinute) >= -MsPerMinute
  /\ 2 * (ms - d * MsPerMinute) < MsPerMinute

\* The pairs of events of the run that detectConflicts compares, that overlap and
\* whose intervals differ.
OverlappingPairs ==
  {p \in (1..Len(events)) \X (1..Len(events)) :
     /\ p[1] < p[2]
     /\ events[p[1]].calendarId # events[p[2]].calendarId
     /\ EventsOverlap(events[p[1]], events[p[2]])
     /\ ~SameInterval(events[p[1]], events[p[2]])}

\* C19 as stated: for two overlapping events with different intervals the conflict
\* has type overlap, its overlapDuration is the length of the intersection in
\* minutes, and its severity is high when overlapDuration exceeds half of the
\* shorter event, else medium when overlapDuration > 30, else low.
C19_OverlapDurationIsIntersection ==
  cdPhase = "done" =>
    \A p \in OverlappingPairs :
      LET a == events[p[1]]
          b == events[p[2]]
      IN \E k \in ConflictsOf(conflicts, a, b) :
           /\ conflicts[k].type = "overlap"
           /\ conflicts[k].overlapDuration # <<>>
           /\ conflicts[k].overlapDuration[1] * MsPerMinute = IntersectionMs(a, b)
           /\ conflicts[k].severity = OverlapSeverity(conflicts[k].overlapDuration[1], a, b)

\* C19 amended: overlapDuration is the length of the intersection rounded to the
\* nearest whole minute, half a minute upwards, and the severity is decided with
\* the rounded number.
C19_OverlapDurationIsRoundedIntersection ==
  cdPhase = "done" =>
    \A p \in OverlappingPairs :
      LET a == events[p[1]]
          b == events[p[2]]
      IN \E k \in ConflictsOf(conflicts, a, b) :
           /\ conflicts[k].type = "overlap"
           /\ conflicts[k].overlapDuration # <<>>
           /\ NearestMinute(conflicts[k].overlapDuration[1], IntersectionMs(a, b))
           /\ conflicts[k].severity = OverlapSeverity(conflicts[k].overlapDuration[1], a, b)

\* C19 witness: two events of different calendars share 35 minutes and a half,
\* more than half of the shorter one, and the conflict reported for them is a high
\* overlap of 36 minutes.
C19_Witness ==
  /\ cdPhase = "done"
  /\ \E k \in 1..Len(conflicts) :
       /\ conflicts[k].type = "overlap" /\ conflicts[k].severity = "high"
       /\ conflicts[k].overlapDuration = <<36>>
       /\ IntersectionMs(conflicts[k].primaryEvent, conflicts[k].conflictingEvent)
            = 35 * MsPerMinute + 30000

\* The pairs of events of different calendars for which neither the overlap rule nor
\* the back-to-back rule fires.
QuietPairs ==
  {p \in (1..Len(events)) \X (1..Len(events)) :
     /\ p[1] < p[2]
     /\ events[p[1]].calendarId # events[p[2]].calendarId
     /\ ~OverlapFires(events[p[1]], events[p[2]])
     /\ ~BackToBackFires(events[p[1]], events[p[2]], MergeOptions(options))
     /\ ~BackToBackFires(events[p[2]], events[p[1]], MergeOptions(options))}

\* One of the two events is a work event that starts before 09:00 or from 17:00 on,
\* and the other is a personal event.
WorkIntrudes(a, b) ==
  /\ a.isWork # b.isWork
  /\ \E w \in {a, b} : w.isWork /\ getHours(w.startTime) \notin 9..16

\* C23: a pair of different calendars for which neither the overlap rule nor the
\* back-to-back rule fires has a conflict exactly when workPersonalSeparation is on,
\* the isWork flags differ and the work event starts outside [9, 17); the conflict
\* is a medium overlap whose primary event is the work event.
C23_WorkPersonalSeparation ==
  cdPhase = "done" =>
    \A p \in QuietPairs :
      LET a == events[p[1]]
          b == events[p[2]]
          found == ConflictsOf(conflicts, a, b)
      IN /\ (found # {})
              <=> (MergeOptions(options).workPersonalSeparation /\ WorkIntrudes(a, b))
         /\ \A k \in found :
              /\ conflicts[k].type = "overlap"
              /\ conflicts[k].severity = "medium"
              /\ conflicts[k].primaryEvent.isWork
              /\ ~conflicts[k].conflictingEvent.isWork

\* C23 witness: a personal morning event and a work event at 17:00 in another
\* calendar, hours apart; the conflict names the later event, the work event, first.
C23_Witness ==
  /\ cdPhase = "done"
  /\ \E p \in QuietPairs : \E k \in ConflictsOf(conflicts, events[p[1]], events[p[2]]) :
       /\ conflicts[k].primaryEvent.startTime = At(0, 17, 0, 0)
       /\ conflicts[k].primaryEvent.isWork
       /\ conflicts[k].conflictingEvent.startTime < At(0, 10, 0, 0)
       /\ conflicts[k].type = "overlap" /\ conflicts[k].severity = "medium"

-----------------------------------------------------------------------------
(* Inputs of the AvailabilityCalculator runs                               *)

MaxUsers == 3

\* A time of day "HH:mm" as the characters of the string.
Clock0900 == <<"0", "9", ":", "0", "0">>

Clock1200 == <<"1", "2", ":", "0", "0">>

Clock1700 == <<"1", "7", ":", "0", "0">>

Slot(from, to) == [start |-> from, end |-> to]

\* The working hours the suggestion route gives every user.
OfficeHours == [start |-> Clock0900, end |-> Clock1700, days |-> {1, 2, 3, 4, 5}]

\* A morning shift that also works on Saturday.
MorningHours == [start |-> Clock0900, end |-> Clock1200, days |-> {4, 5, 6}]

\* A working window without length.
EmptyHours == [start |-> Clock0900, end |-> Clock0900, days |-> {1, 2, 3, 4, 5}]

\* A long day, from before 09:00 until after 17:00.
LongHours ==
  [start |-> <<"0", "8", ":", "0", "0">>, end |-> <<"1", "8", ":", "0", "0">>,
   days |-> {1, 2, 3, 4, 5}]

\* <<busySlots, workingHours>> of the users tried.  Day 0 is a Thursday, day 1 a
\* Friday, day 2 a Saturday.  Busy slots come from stored events: an all-day event
\* covers the whole working window, events may overlap, and they are in no order.
\* Event creation stores an event without comparing its end with its start, so the
\* two users before the last have a busy slot that ends before it starts, one of
\* them with its start after the working window.  One user with
\* the morning shift is busy in the afternoon only.
UserShapes ==
  { <<<<>>, OfficeHours>>,
    <<<<Slot(At(0, 13, 0, 0), At(0, 14, 0, 0)),
        Slot(At(0, 10, 0, 0), At(0, 11, 0, 0))>>, OfficeHours>>,
    <<<<Slot(At(0, 8, 0, 0), At(0, 18, 0, 0))>>, OfficeHours>>,
    <<<<Slot(At(0, 8, 30, 0), At(0, 9, 30, 0)),
        Slot(At(0, 16, 45, 0), At(0, 17, 30, 0))>>, OfficeHours>>,
    <<<<Slot(At(0, 10, 0, 0), At(0, 12, 0, 0)),
        Slot(At(0, 10, 30, 0), At(0, 10, 45, 0))>>, OfficeHours>>,
    <<<<Slot(At(0, 10, 0, 0), At(0, 11, 0, 0)),
        Slot(At(0, 11, 10, 0), At(0, 12, 0, 0))>>, MorningHours>>,
    <<<<Slot(At(0, 13, 0, 0), At(0, 14, 0, 0))>>, MorningHours>>,
    <<<<Slot(At(0, 9, 0, 0), At(0, 16, 0, 0))>>, LongHours>>,
    <<<<Slot(At(0, 11, 0, 0), At(0, 10, 0, 0))>>, OfficeHours>>,
    <<<<Slot(At(0, 18, 0, 0), At(0, 10, 0, 0))>>, OfficeHours>>,
    <<<<>>, EmptyHours>> }

\* User ids are database keys: distinct within a list.
MakeUser(shape, uid) ==
  [userId |-> uid, busySlots |-> shape[1], workingHours |-> shape[2]]

\* The meeting lengths tried, in minutes.
Durations == {30, 90}

\* <<startDate, endDate>> of the ranges tried: Thursday alone; Thursday to the first
\* instant of Saturday; Thursday 10:00 to Friday 09:00.
Ranges ==
  { <<At(0, 0, 0, 0), At(0, 23, 59, 59)>>,
    <<At(0, 0, 0, 0), At(2, 0, 0, 0)>>,
    <<At(0, 10, 0, 0), At(1, 9, 0, 0)>> }

\* The options arguments tried; an absent field takes its default.
AvailabilityOptionChoices ==
  { <<>>,
    [bufferMinutes |-> 0],
    [bufferMinutes |-> 15, workingHours |-> MorningHours],
    [workingHours |-> LongHours] }

InitAvailability ==
  /\ IdleConflict
  /\ IdleEstimator
  /\ IdleRoutes
  /\ IdleShared
  /\ IdleDropdown
  /\ IdleScheduled
  /\ \E n \in 1..MaxUsers : \E shapes \in [1..n -> UserShapes] :
        users = [i \in 1..n |-> MakeUser(shapes[i], i)]
  /\ duration \in Durations
  /\ \E r \in Ranges : startDate = r[1] /\ endDate = r[2]
  /\ avOptions \in AvailabilityOptionChoices
  /\ freeSlots = <<>>
  /\ suggestions = <<>>
  /\ preferredTimes = <<>>
  /\ optimal = <<>>
  /\ avPhase = "input"

\* A caller runs calculator.calculateAvailability(users, startDate, endDate, options).
CalculateAvailability ==
  /\ avPhase = "input"
  /\ freeSlots' = calculateAvailability(users, startDate, endDate, avOptions)
  /\ avPhase' = "availability"
  /\ UNCHANGED <<users, duration, startDate, endDate, avOptions, suggestions,
               preferredTimes, optimal, cdVars, deVars, rtVars, shVars, ndVars, snVars>>

\* A caller runs calculator.suggestMeetingTimes(users, duration, startDate, endDate,
\* options).
SuggestMeetingTimes ==
  /\ avPhase = "input"
  /\ suggestions' = suggestMeetingTimes(users, duration, startDate, endDate, avOptions)
  /\ avPhase' = "suggested"
  /\ UNCHANGED <<users, duration, startDate, endDate, avOptions, freeSlots,
               preferredTimes, optimal, cdVars, deVars, rtVars, shVars, ndVars, snVars>>

\* The preferredTimes arguments tried: none, and noon, a time of little worth to
\* calculateSlotScore.
PreferredChoices == { <<>>, << <<"1", "2", ":", "0", "0">> >> }

\* A caller runs calculator.findOptimalMeetingTime(users, duration, startDate,
\* endDate, preferredTimes, options).
FindOptimalMeetingTime ==
  /\ avPhase = "input"
  /\ \E preferred \in PreferredChoices :
       /\ preferredTimes' = preferred
       /\ optimal' = findOptimalMeetingTime(users, duration, startDate, endDate,
                                            preferred, avOptions)
  /\ avPhase' = "optimal"
  /\ UNCHANGED <<users, duration, startDate, endDate, avOptions, freeSlots,
                 suggestions, cdVars, deVars, rtVars, shVars, ndVars, snVars>>

NextAvailability ==
  CalculateAvailability \/ SuggestMeetingTimes \/ FindOptimalMeetingTime

SpecAvailability == InitAvailability /\ [][NextAvailability]_vars

-----------------------------------------------------------------------------
(* Properties of calculateAvailability and suggestMeetingTimes             *)

BufferMs == MergeAvailabilityOptions(avOptions).bufferMinutes * MsPerMinute

\* The values currentDate takes in the while loop of calculateAvailability.
LoopDates ==
  IF endDate < startDate THEN {}
  ELSE {startDate + k * MsPerDay : k \in 0..((endDate - startDate) \div MsPerDay)}

\* The working days of user u among them.
WorkingDates(u) == {date \in LoopDates : getDay(date) \in u.workingHours.days}

WindowStart(u, date) == parseTimeOnDate(u.workingHours.start, date)

WindowEnd(u, date) == parseTimeOnDate(u.workingHours.end, date)

\* The returned free slots of user u that start within the window of the day.
FreeOfDay(u, date) ==
  {k \in 1..Len(freeSlots[u.userId]) :
     /\ freeSlots[u.userId][k].start >= WindowStart(u, date)
     /\ freeSlots[u.userId][k].start <= WindowEnd(u, date)}

\* Open-interval overlap of two slots.
SlotsOverlap(a, b) == a.start < b.end /\ b.start < a.end

\* The busy slots are well-formed, pairwise disjoint and at least two buffers apart.
BufferRespecting(busy) ==
  /\ \A k \in 1..Len(busy) : busy[k].start < busy[k].end
  /\ \A k, m \in 1..Len(busy) :
       k # m => \/ busy[k].end + 2 * BufferMs <= busy[m].start
                \/ busy[m].end + 2 * BufferMs <= busy[k].start

\* The busy slots that meet the window, clipped to it and widened by the buffer.
WidenedBusy(u, date) ==
  {[start |-> Max2(u.busySlots[k].start, WindowStart(u, date)) - BufferMs,
    end |-> Min2(u.busySlots[k].end, WindowEnd(u, date)) + BufferMs] :
     k \in {m \in 1..Len(u.busySlots) :
              /\ u.busySlots[m].start <= WindowEnd(u, date)
              /\ u.busySlots[m].end >= WindowStart(u, date)}}

\* The intervals cover [from, to]: every stretch between two neighbouring end
\* points inside [from, to] lies in one of them.
Covers(intervals, from, to) ==
  LET points == {from, to}
                \cup {i.start : i \in {x \in intervals : x.start > from /\ x.start < to}}
                \cup {i.end : i \in {x \in intervals : x.end > from /\ x.end < to}}
  IN \A p, q \in points :
       (p < q /\ ~\E r \in points : p < r /\ r < q)
       => \E i \in intervals : i.start <= p /\ q <= i.end

\* C1: on every working day, for busy slots that are pairwise disjoint and respect
\* the buffer, the returned free slots and the clipped, widened busy slots cover the
\* working window, and no free slot overlaps a busy slot or another free slot.
C1_FreeAndBusyPartitionWindow ==
  avPhase = "availability" =>
    \A n \in 1..Len(users) : \A date \in WorkingDates(users[n]) :
      LET u == users[n]
          free == freeSlots[u.userId]
          ofDay == FreeOfDay(u, date)
      IN BufferRespecting(u.busySlots)
         => /\ Covers({free[k] : k \in ofDay} \cup WidenedBusy(u, date),
                      WindowStart(u, date), WindowEnd(u, date))
            /\ \A k \in ofDay : \A m \in 1..Len(u.busySlots) :
                 ~SlotsOverlap(free[k], u.busySlots[m])
            /\ \A k, m \in ofDay : k # m => ~SlotsOverlap(free[k], free[m])

\* C5: every suggestion has at least ceil(0.6 * users.length) available participants.
C5_Quorum ==
  avPhase = "suggested" =>
    \A k \in 1..Len(suggestions) :
      10 * Len(suggestions[k].availableParticipants) >= 6 * Len(users)

\* C5 witness: three users, and a returned suggestion that one of them cannot attend.
C5_Witness ==
  /\ avPhase = "suggested" /\ Len(users) = 3
  /\ \E k \in 1..Len(suggestions) : Len(suggestions[k].availableParticipants) = 2

\* C12: every free slot calculateAvailability returns has start < end; a working
\* window without length contributes no free slot.
C12_FreeSlotsHaveLength ==
  avPhase = "availability" =>
    \A n \in 1..Len(users) : \A k \in 1..Len(freeSlots[users[n].userId]) :
      freeSlots[users[n].userId][k].start < freeSlots[users[n].userId][k].end

\* C13: the list suggestMeetingTimes returns is sorted by score, highest first.
C13_SortedByScore ==
  avPhase = "suggested" =>
    \A i, j \in 1..Len(suggestions) :
      i < j => /\ suggestions[i].scoreDen = suggestions[j].scoreDen
               /\ suggestions[i].scoreNum >= suggestions[j].scoreNum

\* C13 witness: a returned suggestion stands before one that starts earlier and
\* scores lower, so the order is the sort's and not the order of generation.
C13_Witness ==
  /\ avPhase = "suggested"
  /\ \E i, j \in 1..Len(suggestions) :
        /\ i < j
        /\ suggestions[i].start > suggestions[j].start
        /\ suggestions[i].scoreNum > suggestions[j].scoreNum

\* The ids of the users of the call.
UserIds == {users[n].userId : n \in 1..Len(users)}

\* C14: the confidence of every suggestion is availableParticipants.length over
\* users.length, which lies in [0, 1], and availableParticipants holds ids of the
\* users of the call only, each at most once.
C14_ConfidenceIsShareOfUsers ==
  avPhase = "suggested" =>
    \A k \in 1..Len(suggestions) :
      LET sug == suggestions[k]
          available == sug.availableParticipants
      IN /\ sug.confidence = <<Len(available), Len(users)>>
         /\ Len(users) > 0
         /\ 0 <= sug.confidence[1] /\ sug.confidence[1] <= sug.confidence[2]
         /\ \A i \in 1..Len(available) : available[i] \in UserIds
         /\ \A i, j \in 1..Len(available) : i # j => available[i] # available[j]

\* C14 witness: of three users the second is missing from one returned suggestion
\* and all three attend another.
C14_Witness ==
  /\ avPhase = "suggested" /\ Len(users) = 3
  /\ \E k \in 1..Len(suggestions) :
        /\ suggestions[k].availableParticipants = <<1, 3>>
        /\ suggestions[k].confidence = <<2, 3>>
  /\ \E k \in 1..Len(suggestions) : suggestions[k].confidence = <<3, 3>>

\* C15: the free slots returned for one user are in chronological order and
\* pairwise disjoint: no slot ends after the next one starts.
C15_FreeSlotsOrderedAndDisjoint ==
  avPhase = "availability" =>
    \A n \in 1..Len(users) :
      LET free == freeSlots[users[n].userId]
      IN \A k \in 1..(Len(free) - 1) : free[k].end <= free[k + 1].start

\* C18: whatever the busy slots of a user are, overlapping, nested or reaching over
\* the whole working window, no free slot returned for the user overlaps one of
\* the user's busy slots: no instant lies strictly inside both.
C18_FreeSlotsAvoidBusySlots ==
  avPhase = "availability" =>
    \A n \in 1..Len(users) :
      \A k \in 1..Len(freeSlots[users[n].userId]) :
        \A m \in 1..Len(users[n].busySlots) :
          ~SlotsOverlap(freeSlots[users[n].userId][k], users[n].busySlots[m])

\* The user ids in a suggestion's availableParticipants.
Participants(sug) ==
  {sug.availableParticipants[i] : i \in 1..Len(sug.availableParticipants)}

\* The interval of the suggestion lies within the slot, ends included.
ContainedIn(sug, slot) == slot.start <= sug.start /\ sug.end <= slot.end

\* C20: a user is among the available participants of a returned suggestion exactly
\* when one of the free slots that calculateAvailability computes for the user,
\* with the same range and options, contains the whole interval of the suggestion.
C20_AvailableIffInsideOneFreeSlot ==
  avPhase = "suggested" =>
    LET availability == calculateAvailability(users, startDate, endDate, avOptions)
    IN \A k \in 1..Len(suggestions) : \A n \in 1..Len(users) :
         LET free == availability[users[n].userId]
         IN users[n].userId \in Participants(suggestions[k])
              <=> \E f \in 1..Len(free) : ContainedIn(suggestions[k], free[f])

\* C20 witness: a returned suggestion lies partly inside a free slot of a user, who
\* is not counted, and wholly inside a free slot of another user, who is.
C20_Witness ==
  /\ avPhase = "suggested"
  /\ \E k \in 1..Len(suggestions) : \E n, m \in 1..Len(users) :
       LET availability == calculateAvailability(users, startDate, endDate, avOptions)
           free == availability[users[n].userId]
       IN /\ users[n].userId \notin Participants(suggestions[k])
          /\ \E f \in 1..Len(free) :
               /\ free[f].start < free[f].end
               /\ SlotsOverlap(free[f], suggestions[k])
               /\ ~ContainedIn(suggestions[k], free[f])
          /\ users[m].userId \in Participants(suggestions[k])

\* A factor of the score in twentieths: x when the condition holds, else 1.
FactorIf(condition, x) == IF condition THEN x ELSE 20

\* The twentieths of 20^5.
ScoreScale == 20 * 20 * 20 * 20 * 20

\* The factors that do not depend on how the hour after lunch is read, multiplied.
OtherFactors(start) ==
  LET hour == getHours(start)
      minute == getMinutes(start)
  IN (IF minute = 0 THEN 24 ELSE FactorIf(minute = 30, 22))
     * FactorIf(hour \in (9..11) \cup (13..16), 26)
     * FactorIf(hour < 9 \/ hour > 16, 18)
     * FactorIf(hour >= 17, 16)

\* C21 as stated: the score is the confidence times the factors of the start time,
\* with x0.95 only for a start at 13:00.
C21_ScoreFactorsAt1300 ==
  avPhase = "suggested" =>
    \A k \in 1..Len(suggestions) :
      LET sug == suggestions[k]
          at1300 == getHours(sug.start) = 13 /\ getMinutes(sug.start) = 0
      IN /\ sug.scoreDen = sug.confidence[2] * ScoreScale
         /\ sug.scoreNum = sug.confidence[1] * OtherFactors(sug.start)
                             * FactorIf(at1300, 19)

\* C21 amended: x0.95 applies to every start whose hour is 13, so to 13:30 as well.
C21_ScoreFactorsInHour13 ==
  avPhase = "suggested" =>
    \A k \in 1..Len(suggestions) :
      LET sug == suggestions[k]
      IN /\ sug.scoreDen = sug.confidence[2] * ScoreScale
         /\ sug.scoreNum = sug.confidence[1] * OtherFactors(sug.start)
                             * FactorIf(getHours(sug.start) = 13, 19)

\* C21 witness: a returned suggestion starts at 13:30 with every user available, and
\* its score is 1.1 * 1.3 * 0.95.
C21_Witness ==
  /\ avPhase = "suggested"
  /\ \E k \in 1..Len(suggestions) :
       /\ suggestions[k].start = At(0, 13, 30, 0)
       /\ suggestions[k].confidence[1] = suggestions[k].confidence[2]
       /\ suggestions[k].scoreNum = suggestions[k].confidence[1] * 22 * 26 * 20 * 19 * 20

\* The busy slot and the working window of the day have an instant in common: an
\* end point of the slot is within the window, or the slot encloses the window.
\* For a slot that ends before it starts only the end points count.
MeetsWindow(slot, u, date) ==
  \/ isWithinInterval(slot.start, WindowStart(u, date), WindowEnd(u, date))
  \/ isWithinInterval(slot.end, WindowStart(u, date), WindowEnd(u, date))
  \/ slot.start < WindowStart(u, date) /\ slot.end > WindowEnd(u, date)

\* The returned free slots of user u that start on the calendar day of date.
FreeOnCalendarDay(u, date) ==
  {k \in 1..Len(freeSlots[u.userId]) :
     freeSlots[u.userId][k].start \div MsPerDay = date \div MsPerDay}

CalendarDays ==
  {d * MsPerDay : d \in (startDate \div MsPerDay)..(endDate \div MsPerDay)}

\* C25: every calendar day that meets [startDate, endDate] is gone through once,
\* whatever the times of day of the two ends: a user without busy slots has one
\* free slot on each working day among them, the day of endDate included.
C25_EveryCalendarDayOnce ==
  avPhase = "availability" =>
    \A n \in 1..Len(users) : \A day \in CalendarDays :
      (users[n].busySlots = <<>> /\ getDay(day) \in users[n].workingHours.days)
        => Cardinality(FreeOnCalendarDay(users[n], day)) = 1

\* The working hours that generateTimeSlots slides the window over.
SlotHours ==
  IF "workingHours" \in DOMAIN avOptions THEN avOptions.workingHours
  ELSE defaultWorkingHours

\* The user with the given id.
UserOf(uid) == CHOOSE u \in {users[n] : n \in 1..Len(users)} : u.userId = uid

\* The suggestion lies within the working window of the user on a working day of
\* the user.
WithinWorkingHours(sug, u) ==
  /\ getDay(sug.start) \in u.workingHours.days
  /\ WindowStart(u, sug.start) <= sug.start
  /\ sug.end <= WindowEnd(u, sug.start)

\* C26: every returned suggestion lasts the requested duration, starts a multiple
\* of 30 minutes after the start of the working day, lies on a working day, and
\* lies within the working hours of every user among its availableParticipants.
C26_SuggestionsOnGridWithinWorkingHours ==
  avPhase = "suggested" =>
    \A k \in 1..Len(suggestions) :
      LET sug == suggestions[k]
          offset == sug.start - parseTimeOnDate(SlotHours.start, sug.start)
      IN /\ sug.end - sug.start = duration * MsPerMinute
         /\ offset >= 0 /\ offset % (30 * MsPerMinute) = 0
         /\ getDay(sug.start) \in SlotHours.days
         /\ sug.end <= parseTimeOnDate(SlotHours.end, sug.start)
         /\ \A uid \in Participants(sug) : WithinWorkingHours(sug, UserOf(uid))

\* C27: no busy slot of a user among the availableParticipants of a returned
\* suggestion overlaps the interval of the suggestion.
C27_ParticipantsAreNotBusy ==
  avPhase = "suggested" =>
    \A k \in 1..Len(suggestions) : \A uid \in Participants(suggestions[k]) :
      \A m \in 1..Len(UserOf(uid).busySlots) :
        ~SlotsOverlap(suggestions[k], UserOf(uid).busySlots[m])

\* Every candidate slot of the range that reaches the quorum, as a suggestion, in
\* the order of generateTimeSlots: the suggestions before the sort and the cut.
QuorumCandidates ==
  LET opts == MergeAvailabilityOptions(avOptions)
  IN SuggestLoop(generateTimeSlots(startDate, endDate, duration, opts), 1, users,
                 calculateAvailability(users, startDate, endDate, opts), duration)

IsNull(returned) == DOMAIN returned = {}

\* The score of a suggestion after the boost, in halves of 1 / scoreDen.
BoostedHalves(sug) ==
  IF IncludesTime(preferredTimes, FormatHHmm(sug.start))
  THEN 3 * sug.scoreNum ELSE 2 * sug.scoreNum

\* The score of the returned suggestion in the same unit.
ReturnedHalves ==
  IF Len(preferredTimes) > 0 THEN optimal.scoreNum ELSE 2 * optimal.scoreNum

\* C28: findOptimalMeetingTime returns null exactly when no candidate slot reaches
\* the quorum; otherwise the score of the returned suggestion, after the boost, is
\* at least the boosted score of every candidate slot that reaches the quorum.
C28_OptimalOverAllCandidates ==
  avPhase = "optimal" =>
    LET candidates == QuorumCandidates
    IN /\ IsNull(optimal) <=> Len(candidates) = 0
       /\ ~IsNull(optimal) =>
            \A k \in 1..Len(candidates) :
              ReturnedHalves >= BoostedHalves(candidates[k])

-----------------------------------------------------------------------------
(* Inputs of the DurationEstimator runs                                    *)

MaxPhrases == 2

\* The phrases a title is put together from: category, multiplier, collaboration,
\* technical and phase words, and explicit durations with and without a space,
\* among them one of zero minutes.
Phrases ==
  { <<"Q", "u", "i", "c", "k">>,
    <<"t", "e", "a", "m", " ", "m", "e", "e", "t", "i", "n", "g">>,
    <<"m", "e", "e", "t", "i", "n", "g">>,
    <<"R", "e", "v", "i", "e", "w", " ", "f", "o", "r">>,
    <<"3", " ", "h", "o", "u", "r", "s">>,
    <<"0", " ", "m", "i", "n", "u", "t", "e", "s">>,
    <<"3", " ", "d", "a", "y", "s">>,
    <<"2", " ", "w", "e", "e", "k", "s">>,
    <<"3", "0", "m", "i", "n">>,
    <<"d", "e", "p", "l", "o", "y", " ", "a", "p", "i">>,
    <<"m", "a", "s", "s", "i", "v", "e", " ", "t", "e", "a", "m">>,
    <<"h", "a", "r", "d", " ", "p", "h", "a", "s", "e">>,
    <<"t", "i", "n", "y", " ", "e", "a", "s", "y">> }

\* The phrases joined by single spaces.
RECURSIVE JoinPhrases(_, _)
JoinPhrases(ps, k) ==
  IF k > Len(ps) THEN <<>>
  ELSE IF k = Len(ps) THEN ps[k]
  ELSE ps[k] \o <<" ">> \o JoinPhrases(ps, k + 1)

\* n times the word "x", separated by single spaces.
Filler(n) == [k \in 1..(2 * n - 1) |-> IF k % 2 = 1 THEN "x" ELSE " "]

\* The description argument: undefined, empty, a word no keyword matches, and one
\* that brings the text over 20 words.
Descriptions ==
  { <<>>,
    <<<<>>>>,
    <<<<"n", "o", "t", "e", "s">>>>,
    <<Filler(21)>> }

InitEstimate ==
  /\ IdleConflict
  /\ IdleAvailability
  /\ IdleRoutes
  /\ IdleShared
  /\ IdleDropdown
  /\ IdleScheduled
  /\ \E n \in 0..MaxPhrases : \E ps \in [1..n -> Phrases] : title = JoinPhrases(ps, 1)
  /\ description \in Descriptions
  /\ estimate = 0
  /\ explanation = <<>>
  /\ dePhase = "input"

\* A caller runs estimator.estimateDuration(title, description).
EstimateDuration ==
  /\ dePhase = "input"
  /\ estimate' = estimateDuration(title, description)
  /\ dePhase' = "estimated"
  /\ UNCHANGED <<title, description, explanation, cdVars, avVars, rtVars, shVars, ndVars, snVars>>

\* A caller runs estimator.getEstimationExplanation(title, description).
GetEstimationExplanation ==
  /\ dePhase = "input"
  /\ explanation' = getEstimationExplanation(title, description)
  /\ dePhase' = "explained"
  /\ UNCHANGED <<title, description, estimate, cdVars, avVars, rtVars, shVars, ndVars, snVars>>

NextEstimate == EstimateDuration \/ GetEstimationExplanation

SpecEstimate == InitEstimate /\ [][NextEstimate]_vars

-----------------------------------------------------------------------------
(* Properties of estimateDuration                                          *)

\* The lower-cased text of the run.
RunText == TextOf(title, description)

\* The number of minutes the run returned, by either entry point.
Returned == IF dePhase = "explained" THEN explanation.estimate ELSE estimate

\* The unit names an explicit duration can carry, with their minutes.
UnitMinutes ==
  << <<<<"m", "i", "n", "u", "t", "e">>, 1>>, <<<<"m", "i", "n">>, 1>>,
     <<<<"h", "o", "u", "r">>, 60>>, <<<<"h", "r">>, 60>>,
     <<<<"d", "a", "y">>, 480>>, <<<<"w", "e", "e", "k">>, 2400>> >>

\* The minutes of every explicit duration in the text: a whole number, optional
\* white space, a unit name.
ExplicitDurations(text) ==
  {parseInt(SubSeq(text, p[1], DigitRunEnd(text, p[1]))) * UnitMinutes[p[2]][2] :
     p \in {q \in (1..Len(text)) \X (1..Len(UnitMinutes)) :
              /\ IsDigit(text[q[1]])
              /\ q[1] = 1 \/ ~IsDigit(text[q[1] - 1])
              /\ OccursAt(text, UnitMinutes[q[2]][1],
                          SkipSpaces(text, DigitRunEnd(text, q[1]) + 1))}}

\* C6 as stated: every returned number of minutes lies in [5, 480].
C6_AlwaysClamped ==
  dePhase \in {"estimated", "explained"} => Returned \in 5..480

\* C6: a returned number of minutes outside [5, 480] is an explicit duration of
\* the text, returned as it is.
C6_ClampedUnlessExplicit ==
  dePhase \in {"estimated", "explained"} =>
    \/ Returned \in 5..480
    \/ Returned \in ExplicitDurations(RunText)

\* C6 witness: an explicit duration came back beyond the 480 minutes.
C6_Witness ==
  /\ dePhase = "estimated"
  /\ estimate > 480
  /\ estimate \in ExplicitDurations(RunText)

QuickTeamMeeting ==
  <<"Q", "u", "i", "c", "k", " ", "t", "e", "a", "m", " ", "m", "e", "e", "t", "i", "n", "g">>

\* C7 as stated: 'Quick team meeting' without a description gives 23 minutes.
C7_QuickTeamMeeting23 ==
  (dePhase = "estimated" /\ title = QuickTeamMeeting /\ description = <<>>)
  => estimate = 23

\* C7: 'Quick team meeting' without a description is a meeting (base 30) with the
\* multipliers 'quick' and 'team' and no common multiplier, the complexity factor
\* is the 1.3 of the collaboration word 'team', and the result is 29 minutes.
C7_QuickTeamMeeting29 ==
  (dePhase = "estimated" /\ title = QuickTeamMeeting /\ description = <<>>)
  => LET words == SplitWords(RunText)
     IN /\ BestMatch(words).pattern = 1
        /\ patterns[1].baseMinutes = 30
        /\ AppliedMultipliers(RunText, patterns[1].multipliers)
             = <<<<<<"q", "u", "i", "c", "k">>, 5>>, <<<<"t", "e", "a", "m">>, 15>>>>
        /\ AppliedMultipliers(RunText, commonMultipliers) = <<>>
        /\ calculateComplexityMultiplier(RunText, Len(words)) = DoubleOfTenths[13]
        /\ estimate = 29

\* C7 witness: the estimate of 'Quick team meeting' was made.
C7_Witness ==
  dePhase = "estimated" /\ title = QuickTeamMeeting /\ description = <<>> /\ estimate = 29

\* C8: when the text holds an explicit duration, the result is the minutes of an
\* explicit duration of the text.
C8_ExplicitDurationReturned ==
  (dePhase = "estimated" /\ ExplicitDurations(RunText) # {})
  => estimate \in ExplicitDurations(RunText)

\* Some keyword of some category occurs in the text.
KeywordOccurs(text) ==
  \E p \in 1..Len(patterns) : \E k \in 1..Len(patterns[p].keywords) :
    includes(text, patterns[p].keywords[k])

\* The estimate that follows from taking the category bestMatch (0 for none, with
\* the default base of 60 minutes), when the text holds no explicit duration.
EstimateFromCategory(text, bestMatch) ==
  LET baseEstimate == IF bestMatch # 0 THEN patterns[bestMatch].baseMinutes ELSE 60
      total == KeywordMultiplier(text, bestMatch)
      complexity == calculateComplexityMultiplier(text, Len(SplitWords(text)))
  IN Max2(5, Min2(480, MathRound(Multiply(DoubleOfInteger(baseEstimate),
                                          Multiply(total, complexity)))))

\* C22: the estimate is made from the base of the category with the highest match
\* score, the earliest one on a tie, and from the default base of 60 minutes when no
\* keyword of any category occurs in the title or the description, whether or not
\* a description is given.
C22_BaseOfBestCategoryOrDefault ==
  (dePhase = "estimated" /\ ~Truthy(extractTimeIndicators(RunText)))
  => estimate = EstimateFromCategory(
                  RunText,
                  IF KeywordOccurs(RunText) THEN BestMatch(SplitWords(RunText)).pattern
                  ELSE 0)

-----------------------------------------------------------------------------
(* Inputs of the API route runs                                            *)

MaxStored == 2

\* <<startTime, endTime>> of the events requests carry: two that overlap, one that
\* ends before it starts and one without length.
RouteIntervals ==
  { <<At(0, 9, 0, 0),  At(0, 10, 0, 0)>>,
    <<At(0, 9, 30, 0), At(0, 10, 30, 0)>>,
    <<At(0, 10, 0, 0), At(0, 9, 0, 0)>>,
    <<At(0, 9, 0, 0),  At(0, 9, 0, 0)>> }

\* <<calendarId, isWork>> of the events requests carry; calendar 3 is not one of
\* the session user's.
RouteTags == { <<1, <<TRUE>>>>, <<2, <<>>>>, <<3, <<>>>> }

\* The bodies of POST /api/events tried; the last one has no title.
CreateBodies ==
  { [title |-> <<"Standup">>, startTime |-> <<i[1]>>, endTime |-> <<i[2]>>,
     calendarId |-> <<tag[1]>>, isWork |-> tag[2]] : i \in RouteIntervals, tag \in RouteTags }
  \cup { [title |-> <<>>, startTime |-> <<At(0, 9, 0, 0)>>, endTime |-> <<At(0, 10, 0, 0)>>,
          calendarId |-> <<1>>, isWork |-> <<>>] }

\* The bodies of POST /api/conflicts tried: without eventData, for a new event of
\* one of the user's calendars, and for the event stored first, moved.
CheckBodies ==
  { [eventData |-> <<>>] }
  \cup { [eventData |-> <<[id |-> <<>>, startTime |-> i[1], endTime |-> i[2],
                           calendarId |-> tag[1], isWork |-> tag[2]]>>] :
           i \in RouteIntervals, tag \in {t \in RouteTags : t[1] \in UserCalendars} }
  \cup { [eventData |-> <<[id |-> <<1>>, startTime |-> At(0, 9, 30, 0),
                           endTime |-> At(0, 10, 30, 0),
                           calendarId |-> 1, isWork |-> <<TRUE>>]>>] }

\* The query strings of GET /api/conflicts tried.
ConflictQueries ==
  { [startDate |-> <<>>, endDate |-> <<>>, includePast |-> FALSE],
    [startDate |-> <<>>, endDate |-> <<>>, includePast |-> TRUE],
    [startDate |-> <<At(0, 9, 30, 0)>>, endDate |-> <<At(0, 12, 0, 0)>>,
     includePast |-> FALSE] }

InitRoutes ==
  /\ IdleConflict
  /\ IdleAvailability
  /\ IdleEstimator
  /\ IdleRoutes
  /\ IdleShared
  /\ IdleDropdown
  /\ IdleScheduled

\* A client posts an event to /api/events, with or without a session.
PostEvent ==
  /\ Len(dbEvents) < MaxStored
  /\ \E session \in BOOLEAN, body \in CreateBodies :
       LET result == eventsPOST(session, body, dbEvents)
       IN /\ dbEvents' = result.dbEvents
          /\ response' = result.response
          /\ request' = [route |-> "POST /api/events", session |-> session, body |-> body]
  /\ UNCHANGED <<dbConflicts, cdVars, avVars, deVars, shVars, ndVars, snVars>>

\* A client posts event data to /api/conflicts to check it before creation.
PostConflicts ==
  /\ \E session \in BOOLEAN, body \in CheckBodies :
       \E existingEvents \in (IF body.eventData = <<>> THEN {<<>>}
                              ELSE AnyOrder(MightConflict(dbEvents, body.eventData[1]))) :
         /\ response' = conflictsPOST(session, body, existingEvents)
         /\ request' = [route |-> "POST /api/conflicts", session |-> session, body |-> body]
  /\ UNCHANGED <<dbEvents, dbConflicts, cdVars, avVars, deVars, shVars, ndVars, snVars>>

\* A client gets /api/conflicts.
GetConflicts ==
  /\ \E session \in BOOLEAN, query \in ConflictQueries :
       \E rows \in OrderedByStartTime(EventsInRange(dbEvents, query)) :
         LET result == conflictsGET(session, rows, dbConflicts)
         IN /\ dbConflicts' = result.dbConflicts
            /\ response' = result.response
            /\ request' = [route |-> "GET /api/conflicts", session |-> session,
                           query |-> query]
  /\ UNCHANGED <<dbEvents, cdVars, avVars, deVars, shVars, ndVars, snVars>>

NextRoutes == PostEvent \/ PostConflicts \/ GetConflicts

SpecRoutes == InitRoutes /\ [][NextRoutes]_vars

-----------------------------------------------------------------------------
(* Properties of the API routes                                            *)

\* <<startTime, endTime>> of the event the last request carries, <<>> when it
\* carries none.
RequestInterval ==
  IF request.route = "POST /api/events"
  THEN (IF request.body.startTime # <<>> /\ request.body.endTime # <<>>
        THEN <<request.body.startTime[1], request.body.endTime[1]>> ELSE <<>>)
  ELSE IF request.route = "POST /api/conflicts"
  THEN (IF request.body.eventData # <<>>
        THEN <<request.body.eventData[1].startTime, request.body.eventData[1].endTime>>
        ELSE <<>>)
  ELSE <<>>

\* C16: a request that carries an event whose end is not after its start is
\* answered with an error, and no such event is ever stored, so none reaches the
\* detector through the GET handler either.
C16_MalformedIntervalRejected ==
  /\ (RequestInterval # <<>> /\ RequestInterval[2] <= RequestInterval[1])
       => response.status >= 400
  /\ \A k \in 1..Len(dbEvents) : dbEvents[k].startTime < dbEvents[k].endTime

-----------------------------------------------------------------------------
(* Inputs of the runs on shared engine instances                           *)

MaxCallers == 2

Callers == 1..MaxCallers

\* A work event until 09:00 and a personal one from 09:05 in another calendar:
\* what detectConflicts reports for them depends on every field of the options.
SharedEvents ==
  << MakeEvent(<<<<At(0, 8, 0, 0), At(0, 9, 0, 0)>>, <<1, TRUE>>>>, 1),
     MakeEvent(<<<<At(0, 9, 5, 0), At(0, 9, 40, 0)>>, <<2, FALSE>>>>, 2) >>

SharedUsers ==
  << MakeUser(<<<<Slot(At(0, 13, 0, 0), At(0, 14, 0, 0)),
                  Slot(At(0, 10, 0, 0), At(0, 11, 0, 0))>>, OfficeHours>>, 1) >>

\* The calls the callers make.
SharedCalls ==
  { [method |-> "detectConflicts", events |-> SharedEvents, options |-> o] :
      o \in { <<>>, [travelTimeMinutes |-> 5],
              [includeBackToBack |-> FALSE, workPersonalSeparation |-> TRUE] } }
  \cup
  { [method |-> "calculateAvailability", users |-> SharedUsers,
     startDate |-> At(0, 0, 0, 0), endDate |-> At(0, 23, 59, 59), options |-> o] :
      o \in { <<>>, [bufferMinutes |-> 0] } }
  \cup
  { [method |-> "suggestMeetingTimes", users |-> SharedUsers, duration |-> 90,
     startDate |-> At(0, 0, 0, 0), endDate |-> At(0, 23, 59, 59), options |-> o] :
      o \in { <<>>, [bufferMinutes |-> 0],
              [bufferMinutes |-> 15, workingHours |-> MorningHours] } }
  \cup
  { [method |-> "estimateDuration", title |-> t, description |-> <<>>] :
      t \in { <<"t", "e", "a", "m", " ", "m", "e", "e", "t", "i", "n", "g">>,
              <<"3", " ", "h", "o", "u", "r", "s">> } }

InitShared ==
  /\ IdleConflict
  /\ IdleAvailability
  /\ IdleEstimator
  /\ IdleRoutes
  /\ IdleDropdown
  /\ IdleScheduled
  /\ engines = NewEngines
  /\ calls = [c \in Callers |-> [method |-> "none"]]
  /\ results = [c \in Callers |-> <<>>]

\* A caller whose previous call has returned, or who has made none, makes a call.
Invoke(c) ==
  /\ calls[c].method = "none" \/ results[c] # <<>>
  /\ \E call \in SharedCalls : calls' = [calls EXCEPT ![c] = call]
  /\ results' = [results EXCEPT ![c] = <<>>]
  /\ UNCHANGED <<engines, cdVars, avVars, deVars, rtVars, ndVars, snVars>>

\* The call of caller c runs on the shared ConflictDetector.
RunDetectConflicts(c) ==
  /\ calls[c].method = "detectConflicts" /\ results[c] = <<>>
  /\ LET call == detectConflictsOn(engines.detector, calls[c].events, calls[c].options)
     IN /\ results' = [results EXCEPT ![c] = <<call.returned>>]
        /\ engines' = [engines EXCEPT !.detector = call.this]
  /\ UNCHANGED <<calls, cdVars, avVars, deVars, rtVars, ndVars, snVars>>

\* The call of caller c runs on the shared AvailabilityCalculator.
RunCalculateAvailability(c) ==
  /\ calls[c].method = "calculateAvailability" /\ results[c] = <<>>
  /\ LET call == calculateAvailabilityOn(engines.calculator, calls[c].users,
                                         calls[c].startDate, calls[c].endDate,
                                         calls[c].options)
     IN /\ results' = [results EXCEPT ![c] = <<call.returned>>]
        /\ engines' = [engines EXCEPT !.calculator = call.this]
  /\ UNCHANGED <<calls, cdVars, avVars, deVars, rtVars, ndVars, snVars>>

RunSuggestMeetingTimes(c) ==
  /\ calls[c].method = "suggestMeetingTimes" /\ results[c] = <<>>
  /\ LET call == suggestMeetingTimesOn(engines.calculator, calls[c].users,
                                       calls[c].duration, calls[c].startDate,
                                       calls[c].endDate, calls[c].options)
     IN /\ results' = [results EXCEPT ![c] = <<call.returned>>]
        /\ engines' = [engines EXCEPT !.calculator = call.this]
  /\ UNCHANGED <<calls, cdVars, avVars, deVars, rtVars, ndVars, snVars>>

\* The call of caller c runs on the shared DurationEstimator.
RunEstimateDuration(c) ==
  /\ calls[c].method = "estimateDuration" /\ results[c] = <<>>
  /\ results' = [results EXCEPT
                   ![c] = <<estimateDuration(calls[c].title, calls[c].description)>>]
  /\ UNCHANGED <<engines, calls, cdVars, avVars, deVars, rtVars, ndVars, snVars>>

NextShared ==
  \E c \in Callers :
    \/ Invoke(c)
    \/ RunDetectConflicts(c)
    \/ RunCalculateAvailability(c)
    \/ RunSuggestMeetingTimes(c)
    \/ RunEstimateDuration(c)

SpecShared == InitShared /\ [][NextShared]_vars

-----------------------------------------------------------------------------
(* Properties of the shared engine instances                               *)

\* What the call returns when it is the only call made on newly constructed
\* instances.
RunAlone(call) ==
  CASE call.method = "detectConflicts" ->
         detectConflicts(call.events, call.options)
    [] call.method = "calculateAvailability" ->
         calculateAvailability(call.users, call.startDate, call.endDate, call.options)
    [] call.method = "suggestMeetingTimes" ->
         suggestMeetingTimes(call.users, call.duration, call.startDate, call.endDate,
                             call.options)
    [] call.method = "estimateDuration" ->
         estimateDuration(call.title, call.description)

-----------------------------------------------------------------------------
(* NotificationDropdown (src/unnamed/part_000), the polling of             *)
(* NotificationService.setupRealTimeNotifications                          *)
(* (src/lib/notifications/notification-service.ts) and the GET handler of  *)
(* src/app/api/notifications/route.ts                                      *)
(*                                                                         *)
(* A row of prisma.notification is [id, isRead]; rows are kept oldest      *)
(* first, so createdAt grows along the sequence.                           *)

\* The rows the session user may have, and the polls made.
MaxNotifications == 2
MaxTicks == 2

\* orderBy createdAt desc
NewestFirst(rows) == [k \in 1..Len(rows) |-> rows[Len(rows) + 1 - k]]

\* findMany with take: limit
Take(rows, limit) == SubSeq(rows, 1, Min2(limit, Len(rows)))

\* GET /api/notifications for a signed-in user, without type and offset.
GetNotifications(db, unreadOnly, limit) ==
  LET matching == SelectSeq(db, LAMBDA row : ~unreadOnly \/ ~row.isRead)
  IN [notifications |-> Take(NewestFirst(matching), limit),
      totalCount |-> Len(matching),
      unreadCount |-> Len(SelectSeq(db, LAMBDA row : ~row.isRead))]

\* data.notifications.forEach(onNotification) with onNotification =
\* handleNewNotification: each notification goes to the front of the list and
\* adds one to unreadCount.  The result is <<notifications, unreadCount>>.
RECURSIVE ForEachNewNotification(_, _, _, _)
ForEachNewNotification(received, k, list, count) ==
  IF k > Len(received) THEN <<list, count>>
  ELSE ForEachNewNotification(received, k + 1, <<received[k]>> \o list, count + 1)

InitDropdown ==
  /\ IdleConflict
  /\ IdleAvailability
  /\ IdleEstimator
  /\ IdleRoutes
  /\ IdleShared
  /\ IdleScheduled
  /\ dbNotifications \in { <<>>, <<[id |-> 1, isRead |-> FALSE]>>,
                           <<[id |-> 1, isRead |-> TRUE]>> }
  /\ notifications = <<>>
  /\ unreadCount = 0
  /\ fetchReply = [state |-> "requested"]
  /\ pollReplies = <<>>
  /\ ticks = 0

\* Another notification is created for the user.
NotificationCreated ==
  /\ Len(dbNotifications) < MaxNotifications
  /\ dbNotifications' =
       Append(dbNotifications, [id |-> Len(dbNotifications) + 1, isRead |-> FALSE])
  /\ UNCHANGED <<notifications, unreadCount, fetchReply, pollReplies, ticks,
                 cdVars, avVars, deVars, rtVars, shVars, snVars>>

\* The server answers the request of fetchNotifications.
AnswerFetch ==
  /\ fetchReply.state = "requested"
  /\ fetchReply' = [state |-> "answered",
                    data |-> GetNotifications(dbNotifications, FALSE, 20)]
  /\ UNCHANGED <<dbNotifications, notifications, unreadCount, pollReplies, ticks,
                 cdVars, avVars, deVars, rtVars, shVars, snVars>>

\* fetchNotifications goes on after its awaits.
ReceiveFetch ==
  /\ fetchReply.state = "answered"
  /\ notifications' = fetchReply.data.notifications
  /\ unreadCount' = fetchReply.data.unreadCount
  /\ fetchReply' = [state |-> "received"]
  /\ UNCHANGED <<dbNotifications, pollReplies, ticks,
                 cdVars, avVars, deVars, rtVars, shVars, snVars>>

\* The interval fires: poll sends its request and the server answers it.
PollTick ==
  /\ fetchReply.state # "idle"
  /\ ticks < MaxTicks
  /\ ticks' = ticks + 1
  /\ pollReplies' = Append(pollReplies, GetNotifications(dbNotifications, TRUE, 10))
  /\ UNCHANGED <<dbNotifications, notifications, unreadCount, fetchReply,
                 cdVars, avVars, deVars, rtVars, shVars, snVars>>

\* poll goes on after its awaits with the reply to one of its requests.
ReceivePoll ==
  \E i \in 1..Len(pollReplies) :
    LET after == ForEachNewNotification(pollReplies[i].notifications, 1,
                                        notifications, unreadCount)
    IN /\ notifications' = after[1]
       /\ unreadCount' = after[2]
       /\ pollReplies' = SubSeq(pollReplies, 1, i - 1)
                         \o SubSeq(pollReplies, i + 1, Len(pollReplies))
       /\ UNCHANGED <<dbNotifications, fetchReply, ticks,
                      cdVars, avVars, deVars, rtVars, shVars, snVars>>

NextDropdown ==
  NotificationCreated \/ AnswerFetch \/ ReceiveFetch \/ PollTick \/ ReceivePoll

SpecDropdown == InitDropdown /\ [][NextDropdown]_vars

-----------------------------------------------------------------------------
(* Properties of NotificationDropdown                                      *)

\* The ids of the unread notifications of the user.
UnreadIds == {dbNotifications[k].id : k \in
                {m \in 1..Len(dbNotifications) : ~dbNotifications[m].isRead}}

\* C29: however the initial fetch and the polls interleave, no notification id is
\* in the list twice, and unreadCount is at most the number of distinct unread
\* notifications.
C29_NoNotificationTwice ==
  /\ \A i, j \in 1..Len(notifications) :
       i # j => notifications[i].id # notifications[j].id
  /\ unreadCount <= Cardinality(UnreadIds)

-----------------------------------------------------------------------------
(* The scheduled-notifications endpoint                                    *)
(* (src/app/api/notifications/scheduled/route.ts)                          *)
(*                                                                         *)
(* Times are minutes.  A row of prisma.notification is [type, data,        *)
(* userId, createdAt]; title, message and isRead play no part in what the  *)
(* handler looks up or compares.  findMany returns rows by ascending id.   *)

\* The invocations made, and the minutes the clock runs.
MaxPosts == 3
MaxMinutes == 30
MinutesPerDay == 1440

\* The rows of a table as findMany returns them.
RECURSIVE ById(_)
ById(rows) ==
  IF rows = {} THEN <<>>
  ELSE LET first == CHOOSE r \in rows : \A q \in rows : r.id <= q.id
       IN <<first>> \o ById(rows \ {first})

\* Events starting in the next 15 minutes.
UpcomingEvents(nowMinutes, eventRows) ==
  ById({e \in eventRows : e.startTime >= nowMinutes /\ e.startTime <= nowMinutes + 15})

EventReminders(upcomingEvents) ==
  [k \in 1..Len(upcomingEvents) |->
     [type |-> "event_reminder",
      data |-> [eventId |-> upcomingEvents[k].id,
                startTime |-> upcomingEvents[k].startTime],
      userId |-> upcomingEvents[k].userId]]

\* Tasks due in the next 24 hours that are not completed.
DueTasks(nowMinutes, taskRows) ==
  ById({t \in taskRows : /\ t.dueDate >= nowMinutes
                         /\ t.dueDate <= nowMinutes + MinutesPerDay
                         /\ ~t.isCompleted})

TaskReminders(dueTasks) ==
  [k \in 1..Len(dueTasks) |->
     [type |-> "task_due",
      data |-> [taskId |-> dueTasks[k].id, dueDate |-> dueTasks[k].dueDate],
      userId |-> dueTasks[k].userId]]

\* The other events of the same user that overlap the event.
ConflictingEvents(event, eventRows) ==
  ById({e \in eventRows : /\ e.userId = event.userId
                          /\ e.id # event.id
                          /\ e.startTime < event.endTime
                          /\ e.endTime > event.startTime})

\* The loop over upcomingEvents, from the k-th on.
RECURSIVE ConflictNotifications(_, _, _)
ConflictNotifications(upcomingEvents, k, eventRows) ==
  IF k > Len(upcomingEvents) THEN <<>>
  ELSE LET conflictingEvents == ConflictingEvents(upcomingEvents[k], eventRows)
       IN (IF Len(conflictingEvents) > 0
           THEN <<[type |-> "conflict_detected",
                   data |-> [eventId |-> upcomingEvents[k].id,
                             conflictingEventIds |->
                               [i \in 1..Len(conflictingEvents) |->
                                  conflictingEvents[i].id]],
                   userId |-> upcomingEvents[k].userId]>>
           ELSE <<>>)
          \o ConflictNotifications(upcomingEvents, k + 1, eventRows)

\* One clause of the OR of the lookup: the type, the id under the path and the
\* user of a reminder.
MatchesReminder(row, reminder) ==
  /\ row.type = reminder.type
  /\ row.userId = reminder.userId
  /\ IF reminder.type = "event_reminder"
     THEN row.data.eventId = reminder.data.eventId
     ELSE row.data.taskId = reminder.data.taskId

\* The lookup of existing notifications: rows of the last 30 minutes that match an
\* event reminder or a task reminder.
ExistingNotifications(rows, reminders, nowMinutes) ==
  SelectSeq(rows,
            LAMBDA row : /\ \E k \in 1..Len(reminders) : MatchesReminder(row, reminders[k])
                         /\ row.createdAt >= nowMinutes - 30)

\* `${n.type}_${JSON.stringify(n.data)}_${n.userId}`
NotificationKey(n) == <<n.type, n.data, n.userId>>

\* The POST handler at the given time: the rows of prisma.notification afterwards
\* and the body of the response.
PostScheduledNotifications(nowMinutes, eventRows, taskRows, rows) ==
  LET upcomingEvents == UpcomingEvents(nowMinutes, eventRows)
      eventReminders == EventReminders(upcomingEvents)
      taskReminders == TaskReminders(DueTasks(nowMinutes, taskRows))
      conflictNotifications == ConflictNotifications(upcomingEvents, 1, eventRows)
      allNotifications == eventReminders \o taskReminders \o conflictNotifications
      existingNotifications ==
        ExistingNotifications(rows, eventReminders \o taskReminders, nowMinutes)
      existingKeys == {NotificationKey(existingNotifications[k]) :
                         k \in 1..Len(existingNotifications)}
      newNotifications ==
        SelectSeq(allNotifications, LAMBDA n : NotificationKey(n) \notin existingKeys)
  IN IF Len(allNotifications) > 0
     THEN [rows |-> rows \o [k \in 1..Len(newNotifications) |->
                               [type |-> newNotifications[k].type,
                                data |-> newNotifications[k].data,
                                userId |-> newNotifications[k].userId,
                                createdAt |-> nowMinutes]],
           body |-> [success |-> TRUE,
                     processed |-> Len(allNotifications),
                     created |-> Len(newNotifications)]]
     ELSE [rows |-> rows,
           body |-> [success |-> TRUE, processed |-> 0, created |-> 0]]

\* The events and tasks in the tables: two overlapping events of user 1, an event
\* of user 2 that starts later, a task due within the day and a completed one.
EventPool ==
  { [id |-> 1, userId |-> 1, startTime |-> 10, endTime |-> 40],
    [id |-> 2, userId |-> 1, startTime |-> 20, endTime |-> 50],
    [id |-> 3, userId |-> 2, startTime |-> 40, endTime |-> 60] }

TaskPool ==
  { [id |-> 1, userId |-> 1, dueDate |-> 60, isCompleted |-> FALSE],
    [id |-> 2, userId |-> 2, dueDate |-> 20, isCompleted |-> TRUE] }

InitScheduled ==
  /\ IdleConflict
  /\ IdleAvailability
  /\ IdleEstimator
  /\ IdleRoutes
  /\ IdleShared
  /\ IdleDropdown
  /\ now = 0
  /\ schedEvents \in SUBSET EventPool
  /\ schedTasks \in SUBSET TaskPool
  /\ schedNotifications = <<>>
  /\ schedResponse = <<>>
  /\ posts = 0

\* The cron job invokes POST /api/notifications/scheduled.
PostScheduled ==
  /\ posts < MaxPosts
  /\ LET done == PostScheduledNotifications(now, schedEvents, schedTasks,
                                            schedNotifications)
     IN /\ schedNotifications' = done.rows
        /\ schedResponse' = done.body
  /\ posts' = posts + 1
  /\ UNCHANGED <<now, schedEvents, schedTasks,
                 cdVars, avVars, deVars, rtVars, shVars, ndVars>>

\* Five minutes pass; events and tasks stay as they are.
TimePasses ==
  /\ now + 5 <= MaxMinutes
  /\ now' = now + 5
  /\ UNCHANGED <<schedEvents, schedTasks, schedNotifications, schedResponse, posts,
                 cdVars, avVars, deVars, rtVars, shVars, ndVars>>

NextScheduled == PostScheduled \/ TimePasses

SpecScheduled == InitScheduled /\ [][NextScheduled]_vars

-----------------------------------------------------------------------------
(* Properties of the scheduled-notifications endpoint                      *)

\* The event or task a notification is about.
SubjectOf(row) == IF row.type = "task_due" THEN row.data.taskId ELSE row.data.eventId

\* C30: invocations within 30 minutes, with the events and tasks unchanged, create
\* at most one notification per type, event or task, and user.
C30_OncePerSubject ==
  \A i, j \in 1..Len(schedNotifications) :
    (/\ i # j
     /\ schedNotifications[i].type = schedNotifications[j].type
     /\ schedNotifications[i].userId = schedNotifications[j].userId)
    => SubjectOf(schedNotifications[i]) # SubjectOf(schedNotifications[j])

====
